---- MODULE Spec2Model ----
(***************************************************************************)
(* State-machine model of the analytics and flag-detection engine of       *)
(* filingwatcher (ingestion/analytics.py, ingestion/flags.py,              *)
(* ingestion/prices.py over the tables of db/models.py).                   *)
(*                                                                         *)
(* Conventions                                                             *)
(*   - a nullable number or date is a tuple: <<>> is None, <<v>> is v;     *)
(*   - a Python float that is the result of a division is an exact         *)
(*     rational <<n, d>> in lowest terms with d > 0; <<>> is None;         *)
(*   - a nullable string column holds NULL for None;                       *)
(*   - dates are day numbers; accession numbers are integers whose order   *)
(*     is the lexicographic order of the fixed-width accession strings;    *)
(*   - a table is a sequence of row records, the row id being the index;   *)
(*     a query without ORDER BY returns rows in id order.                  *)
(***************************************************************************)
EXTENDS Integers, Sequences, FiniteSets, TLC

VARIABLES
    filings,    \* table section16_filings: sequence of Section16Filing rows
    prices,     \* table price_history: set of [ticker, date, close]
    flags,      \* table flags: sequence of Flag rows in insertion order
    analytics,  \* table insider_analytics: sequence of InsiderAnalytics rows
    clock,      \* the reading of datetime.utcnow() / date.today()
    runs,       \* number of detect_and_save_flags calls made so far
    ingest_runs, \* table ingest_runs: sequence of IngestRun rows
    pipeline,   \* the pipeline process: its position, its locals, its clock readings
    lastOp      \* the last call made: its arguments and its outcome

vars == <<filings, prices, flags, analytics, clock, runs, ingest_runs, pipeline, lastOp>>

----------------------------------------------------------------------------
(* Values *)

None == <<>>

NULL == "NULL"

Some(v) == <<v>>

IsNone(x) == x = <<>>

Val(x) == x[1]

Abs(n) == IF n < 0 THEN -n ELSE n

RECURSIVE GCD(_, _)
GCD(a, b) == IF b = 0 THEN a ELSE GCD(b, a % b)

\* The rational n/d in lowest terms with a positive denominator (d # 0).
Rat(n, d) ==
    LET g == GCD(Abs(n), Abs(d))
        s == IF d < 0 THEN -1 ELSE 1
    IN  <<(s * n) \div g, (s * d) \div g>>

RInt(n) == <<n, 1>>

RAdd(x, y) == Rat(x[1] * y[2] + y[1] * x[2], x[2] * y[2])

RSub(x, y) == Rat(x[1] * y[2] - y[1] * x[2], x[2] * y[2])

RMul(x, y) == Rat(x[1] * y[1], x[2] * y[2])

RDiv(x, y) == Rat(x[1] * y[2], x[2] * y[1])

RPos(x) == x[1] > 0

\* Python truthiness of an Optional[float]: None and 0.0 are both falsy.
Truthy(x) == x # None /\ x[1] # 0

\* float(v) of a nullable numeric column.
ToRat(x) == IF IsNone(x) THEN None ELSE RInt(Val(x))

----------------------------------------------------------------------------
(* Bounds of the model *)

\* Readings of the wall clock beyond the first.
MaxClock == 1

\* Detection runs made on one store.
MaxRuns == 2

\* Largest numerator of a price handed to _price_pct.
MaxPrice == 4

\* Longest pair of columns handed to _wacb.
MaxTrades == 2

----------------------------------------------------------------------------
(* config.py *)

\* The watchlist, cut to two tickers (the source lists nine).
COMPANIES == <<"NVDA", "AAPL">>

RETURN_WINDOWS ==
    [w2 |-> 14, m1 |-> 30, m3 |-> 90, m6 |-> 180, y1 |-> 365, y2 |-> 730, y3 |-> 1095]

----------------------------------------------------------------------------
(* Tables (db/models.py) and generic query helpers *)

\* One section16_filings row; id is the primary key (the index in filings).
Section16Filing(id, acc, tkr, fdate, name, title, tdate, code, sh, px, rem, deriv) ==
    [id |-> id, accession_no |-> acc, ticker |-> tkr, company_name |-> tkr,
     filing_date |-> fdate, insider_name |-> name,
     insider_cik |-> IF name = NULL THEN NULL ELSE name,
     is_director |-> FALSE, is_officer |-> title # NULL, is_ten_pct_owner |-> FALSE,
     officer_title |-> title, transaction_date |-> tdate, transaction_code |-> code,
     shares |-> sh, price |-> px,
     value |-> IF sh # None /\ px # None THEN Some(Val(sh) * Val(px)) ELSE None,
     shares_remaining |-> rem, is_derivative |-> deriv, is_10b5_1_plan |-> NULL]

\* is_10b5_1_plan is tri-state: "Y", "N" or NULL.

Range(s) == {s[i] : i \in DOMAIN s}

\* Order of two nullable dates with missing dates last (pandas na_position="last").
DateBefore(a, b) == a # None /\ (b = None \/ Val(a) < Val(b))

\* rows.sort_values(col): ascending, missing values last, ties in input order.
\* keys[i] is the nullable date of s[i].
SortedByDate(s, keys) ==
    LET n == Len(s)
        Lt(i, j) == DateBefore(keys[i], keys[j])
                    \/ (~DateBefore(keys[j], keys[i]) /\ i < j)
        Rank(i) == Cardinality({j \in 1..n : Lt(j, i)}) + 1
    IN  [r \in 1..n |-> s[CHOOSE i \in 1..n : Rank(i) = r]]

TxnDates(s) == [i \in DOMAIN s |-> s[i].transaction_date]

FilingDates(s) == [i \in DOMAIN s |-> s[i].filing_date]

RECURSIVE SumSeq(_)
SumSeq(s) == IF s = <<>> THEN 0 ELSE s[1] + SumSeq(Tail(s))

----------------------------------------------------------------------------
(* ingestion/prices.py: lookups on price_history *)

PricesOf(ticker) == {p \in prices : p.ticker = ticker}

\* A mutation of get_price_on_or_after: only a price point dated exactly
\* target_date is found.
get_price_on(ticker, target_date) ==
    LET rows == {p \in PricesOf(ticker) : p.date = target_date}
    IN  IF rows = {} THEN None
        ELSE RInt((CHOOSE p \in rows : TRUE).close)

get_price_on_or_after(ticker, target_date) ==
    LET rows == {p \in PricesOf(ticker) : p.date >= target_date}
    IN  IF rows = {} THEN None
        ELSE RInt((CHOOSE p \in rows : \A q \in rows : p.date <= q.date).close)

get_latest_price(ticker) ==
    LET rows == PricesOf(ticker)
    IN  IF rows = {} THEN None
        ELSE RInt((CHOOSE p \in rows : \A q \in rows : p.date >= q.date).close)

----------------------------------------------------------------------------
(* ingestion/analytics.py: helpers *)

IsPresent(x) == x # None

\* _safe_sum over a column (a sequence of nullable numbers).
_safe_sum(series) ==
    LET s == SelectSeq(series, IsPresent)
    IN  IF s = <<>> THEN None ELSE RInt(SumSeq([i \in DOMAIN s |-> Val(s[i])]))

\* A mutation of _wacb: the share sum runs over every position with a share
\* count, priced or not.
_wacbUnmasked(shares, prices_) ==
    LET idx == {i \in DOMAIN shares : shares[i] # None /\ prices_[i] # None}
        sh  == [i \in DOMAIN shares |-> IF shares[i] # None THEN Val(shares[i]) ELSE 0]
        sp  == [i \in DOMAIN shares |->
                   IF i \in idx THEN Val(shares[i]) * Val(prices_[i]) ELSE 0]
    IN  IF idx = {} \/ SumSeq(sh) = 0 THEN None
        ELSE Rat(SumSeq(sp), SumSeq(sh))

\* _wacb over two parallel columns.
_wacb(shares, prices_) ==
    LET idx == {i \in DOMAIN shares : shares[i] # None /\ prices_[i] # None}
        sh  == [i \in DOMAIN shares |-> IF i \in idx THEN Val(shares[i]) ELSE 0]
        sp  == [i \in DOMAIN shares |->
                   IF i \in idx THEN Val(shares[i]) * Val(prices_[i]) ELSE 0]
    IN  IF idx = {} \/ SumSeq(sh) = 0 THEN None
        ELSE Rat(SumSeq(sp), SumSeq(sh))


_price_pct(price_a, price_b) ==
    IF Truthy(price_a) /\ Truthy(price_b) /\ RPos(price_a)
    THEN RMul(RDiv(RSub(price_b, price_a), price_a), RInt(100))
    ELSE None

_window_price(ticker, base_date, days) ==
    get_price_on_or_after(ticker, base_date + days)

Column(rows, f) == [i \in DOMAIN rows |-> rows[i][f]]

\* A mutation of IsNonDerivative: derivative rows pass the filter too.
IsAnyRow(r) == TRUE

IsNonDerivative(r) == r.is_derivative = FALSE

HasTxnDate(r) == r.transaction_date # None

HasBalance(r) == r.shares_remaining # None

IsCodeP(r) == r.transaction_code = "P"

\* A mutation of IsCodeS: every row counts as a sale.
IsAnyCode(r) == TRUE

IsCodeS(r) == r.transaction_code = "S"

IsCodeA(r) == r.transaction_code = "A"

IsPlanTrade(r) == r.is_10b5_1_plan = "Y"

\* Position block of _compute_for_insider: the balance of the last row of the
\* non-derivative rows that carry one, sorted by transaction date.
LastReportedShares(nd) ==
    LET pos_rows == SortedByDate(SelectSeq(nd, HasBalance),
                                 TxnDates(SelectSeq(nd, HasBalance)))
    IN  IF pos_rows = <<>> THEN None
        ELSE ToRat(pos_rows[Len(pos_rows)].shares_remaining)

\* rows: the rows of one (ticker, insider_name) group, in query order.
_compute_for_insider(ticker, insider_name, rows) ==
    LET nd0          == SelectSeq(rows, IsNonDerivative)
        nd           == SortedByDate(nd0, TxnDates(nd0))
        byFiling     == SortedByDate(rows, FilingDates(rows))
        latest_row   == byFiling[Len(byFiling)]
        dated        == SelectSeq(nd, HasTxnDate)
        first_txn_dt == IF dated = <<>> THEN None ELSE dated[1].transaction_date
        fdates       == {Val(r.filing_date) : r \in {q \in Range(rows) : q.filing_date # None}}
        last_filing  == IF fdates = {} THEN None
                        ELSE Some(CHOOSE d \in fdates : \A e \in fdates : d >= e)
        cur_price    == get_latest_price(ticker)
        entry_price  == IF first_txn_dt # None
                        THEN get_price_on_or_after(ticker, Val(first_txn_dt))
                        ELSE None
        WindowPct(days) ==
            IF first_txn_dt # None
            THEN _price_pct(entry_price, _window_price(ticker, Val(first_txn_dt), days))
            ELSE None
        last_shares  == LastReportedShares(nd)
        buys         == SelectSeq(nd, IsCodeP)
        buy_shares   == _safe_sum(Column(buys, "shares"))
        buy_wacb     == _wacb(Column(buys, "shares"), Column(buys, "price"))
        unrealized   == Truthy(buy_wacb) /\ Truthy(cur_price) /\ Truthy(buy_shares)
        sells        == SelectSeq(nd, IsCodeS)
        sell_shares  == _safe_sum(Column(sells, "shares"))
        sell_wacb    == _wacb(Column(sells, "shares"), Column(sells, "price"))
        awards       == SelectSeq(nd, IsCodeA)
        award_shares == _safe_sum(Column(awards, "shares"))
        OrZero(x)    == IF Truthy(x) THEN x ELSE RInt(0)
    IN  [ticker                  |-> ticker,
         insider_name            |-> insider_name,
         insider_cik             |-> latest_row.insider_cik,
         company_name            |-> latest_row.company_name,
         officer_title           |-> latest_row.officer_title,
         is_director             |-> latest_row.is_director,
         is_officer              |-> latest_row.is_officer,
         is_ten_pct_owner        |-> latest_row.is_ten_pct_owner,
         first_txn_date          |-> first_txn_dt,
         last_filing_date        |-> last_filing,
         entry_price             |-> entry_price,
         current_price           |-> cur_price,
         stock_pct_since_entry   |-> _price_pct(entry_price, cur_price),
         pct_2w                  |-> WindowPct(RETURN_WINDOWS.w2),
         pct_1m                  |-> WindowPct(RETURN_WINDOWS.m1),
         pct_3m                  |-> WindowPct(RETURN_WINDOWS.m3),
         pct_6m                  |-> WindowPct(RETURN_WINDOWS.m6),
         pct_1y                  |-> WindowPct(RETURN_WINDOWS.y1),
         pct_2y                  |-> WindowPct(RETURN_WINDOWS.y2),
         pct_3y                  |-> WindowPct(RETURN_WINDOWS.y3),
         last_reported_shares    |-> last_shares,
         current_position_value  |-> IF Truthy(last_shares) /\ Truthy(cur_price)
                                     THEN RMul(last_shares, cur_price) ELSE None,
         n_open_mkt_buys         |-> Len(buys),
         open_mkt_shares_bought  |-> buy_shares,
         open_mkt_total_cost     |-> _safe_sum(Column(buys, "value")),
         open_mkt_wacb           |-> buy_wacb,
         open_mkt_unrealized_pct |-> IF unrealized THEN _price_pct(buy_wacb, cur_price)
                                     ELSE None,
         open_mkt_unrealized_usd |-> IF unrealized
                                     THEN RMul(RSub(cur_price, buy_wacb), buy_shares)
                                     ELSE None,
         n_open_mkt_sells        |-> Len(sells),
         open_mkt_shares_sold    |-> sell_shares,
         open_mkt_total_proceeds |-> _safe_sum(Column(sells, "value")),
         open_mkt_avg_sell_price |-> sell_wacb,
         realized_pct            |-> IF Truthy(buy_wacb) /\ Truthy(sell_wacb)
                                     THEN _price_pct(buy_wacb, sell_wacb) ELSE None,
         shares_awarded          |-> award_shares,
         award_current_value     |-> IF Truthy(award_shares) /\ Truthy(cur_price)
                                     THEN RMul(award_shares, cur_price) ELSE None,
         net_open_mkt_shares     |-> RSub(OrZero(buy_shares), OrZero(sell_shares)),
         pct_trades_on_10b5_plan |-> IF Len(nd) # 0
                                     THEN RMul(Rat(Len(SelectSeq(nd, IsPlanTrade)), Len(nd)),
                                               RInt(100))
                                     ELSE RInt(0)]

\* The insider names of the model, in lexicographic order (groupby sorts its keys).
INSIDER_NAMES == <<"Adams", "Baker", "Clark", "Davis">>

RowsOfTicker(ticker) == SelectSeq(filings, LAMBDA r : r.ticker = ticker)

\* The group of insider_name `name` among the rows of `ticker` in table tbl.
GroupOf(tbl, ticker, name) ==
    SelectSeq(tbl, LAMBDA r : r.ticker = ticker /\ r.insider_name = name)

RowsOfInsider(ticker, name) == GroupOf(filings, ticker, name)

\* The attributed insiders of a ticker.
NamedInsiders(ticker) ==
    {n \in Range(INSIDER_NAMES) : RowsOfInsider(ticker, n) # <<>>}

\* The analytics records of a ticker (of one insider of it) in table store.
RecordsOf(store, ticker) == SelectSeq(store, LAMBDA a : a.ticker = ticker)

RecordsFor(store, ticker, name) ==
    SelectSeq(store, LAMBDA a : a.ticker = ticker /\ a.insider_name = name)

\* df.groupby("insider_name", dropna=False): the keys in sorted order, the
\* missing-name group last.
GroupKeys(ticker) ==
    SelectSeq(INSIDER_NAMES, LAMBDA n : RowsOfInsider(ticker, n) # <<>>)
    \o (IF RowsOfInsider(ticker, NULL) # <<>> THEN <<NULL>> ELSE <<>>)

\* A mutation of SkipGroup: the missing-name group is processed like any other.
SkipGroupNever(insider_name) == FALSE

\* analytics.py line 203: the guard that drops the missing-name group.
SkipGroup(insider_name) == insider_name = NULL

\* A mutation of Upsert: an existing record keeps its computed_at.
UpsertKeepsStamp(store, rec, now) ==
    LET hit == {i \in DOMAIN store : store[i].ticker = rec.ticker
                                      /\ store[i].insider_name = rec.insider_name}
        at  == CHOOSE i \in hit : \A j \in hit : i <= j
    IN  IF hit # {}
        THEN [store EXCEPT ![at] = [computed_at |-> store[at].computed_at] @@ rec]
        ELSE Append(store, [computed_at |-> now] @@ rec)

\* A mutation of Upsert: the lookup by (ticker, insider_name) finds nothing.
UpsertAlwaysInserts(store, rec, now) ==
    Append(store, [computed_at |-> now] @@ rec)

\* analytics.py lines 206-216: overwrite every field of the existing record of
\* (ticker, insider_name) and stamp computed_at, or add a new record.
Upsert(store, rec, now) ==
    LET hit == {i \in DOMAIN store : store[i].ticker = rec.ticker
                                      /\ store[i].insider_name = rec.insider_name}
    IN  IF hit # {}
        THEN [store EXCEPT ![CHOOSE i \in hit : \A j \in hit : i <= j] =
                               [computed_at |-> now] @@ rec]
        ELSE Append(store, [computed_at |-> now] @@ rec)

\* A mutation of SessionRollback: the writes made before the exception stay.
SessionRollbackKeepsWrites(committed, pending) == pending

\* session.rollback(): the writes of the open transaction are discarded.
SessionRollback(committed, pending) == committed

\* The loop of refresh_analytics_for_ticker over the groups; failAt = k > 0
\* makes the store raise while the k-th attributed insider is processed.
RECURSIVE RefreshLoop(_, _, _, _, _)
RefreshLoop(ticker, keys, store, count, failAt) ==
    IF keys = <<>> THEN [store |-> store, count |-> count, raised |-> FALSE]
    ELSE IF SkipGroup(keys[1])
         THEN RefreshLoop(ticker, Tail(keys), store, count, failAt)
    ELSE IF failAt = count + 1
         THEN [store |-> store, count |-> count, raised |-> TRUE]
    ELSE RefreshLoop(ticker, Tail(keys),
             Upsert(store,
                    _compute_for_insider(ticker, keys[1], RowsOfInsider(ticker, keys[1])),
                    clock),
             count + 1, failAt)

\* refresh_analytics_for_ticker on the analytics table `store`: the table it
\* leaves, whether it raised, and the count it returned. failAt = 0: no
\* failure; failAt = k: failure at the k-th insider; failAt = count + 1:
\* failure at commit (or, with no rows, at the first query).
RefreshTicker(store, ticker, failAt) ==
    IF RowsOfTicker(ticker) = <<>>
    THEN [store |-> store, raised |-> failAt # 0,
          returned |-> IF failAt # 0 THEN None ELSE Some(0), written |-> 0]
    ELSE LET r == RefreshLoop(ticker, GroupKeys(ticker), store, 0, failAt)
         IN  IF r.raised \/ failAt = r.count + 1
             THEN [store |-> SessionRollback(store, r.store), raised |-> TRUE,
                   returned |-> None, written |-> r.count]
             ELSE [store |-> r.store, raised |-> FALSE,
                   returned |-> Some(r.count), written |-> r.count]

\* Number of attributed insiders of a ticker.
NumInsiders(ticker) == Cardinality(NamedInsiders(ticker))

\* refresh_all_analytics from the i-th watchlist entry on: an exception of
\* refresh_analytics_for_ticker leaves the loop. failTicker = 0: no failure.
RECURSIVE RefreshAllFrom(_, _, _, _, _, _)
RefreshAllFrom(i, store, total, invoked, failTicker, failAt) ==
    IF i > Len(COMPANIES)
    THEN [store |-> store, raised |-> FALSE, returned |-> Some(total), invoked |-> invoked]
    ELSE LET r == RefreshTicker(store, COMPANIES[i], IF i = failTicker THEN failAt ELSE 0)
         IN  IF r.raised
             THEN [store |-> r.store, raised |-> TRUE, returned |-> None,
                   invoked |-> invoked \cup {COMPANIES[i]}]
             ELSE RefreshAllFrom(i + 1, r.store, total + Val(r.returned),
                                 invoked \cup {COMPANIES[i]}, failTicker, failAt)

----------------------------------------------------------------------------
(* Actions of the analytics orchestrator *)

refresh_analytics_for_ticker(ticker, failAt) ==
    /\ failAt <= NumInsiders(ticker) + 1
    /\ \E r \in {RefreshTicker(analytics, ticker, failAt)} :
        /\ analytics' = r.store
        /\ lastOp' = [kind |-> "refresh", ticker |-> ticker, raised |-> r.raised,
                      returned |-> r.returned, written |-> r.written,
                      failAt |-> failAt,
                      before |-> {a.computed_at : a \in Range(RecordsOf(analytics, ticker))}]
        /\ UNCHANGED <<filings, prices, flags, clock, runs, ingest_runs, pipeline>>

refresh_all_analytics(failTicker, failAt) ==
    /\ failTicker = 0 => failAt = 0
    /\ failTicker # 0 => /\ failAt >= 1
                          /\ failAt <= NumInsiders(COMPANIES[failTicker]) + 1
    /\ \E r \in {RefreshAllFrom(1, analytics, 0, {}, failTicker, failAt)} :
        /\ analytics' = r.store
        /\ lastOp' = [kind |-> "refresh_all", raised |-> r.raised,
                      returned |-> r.returned, invoked |-> r.invoked,
                      failed |-> IF failTicker = 0 THEN NULL ELSE COMPANIES[failTicker]]
        /\ UNCHANGED <<filings, prices, flags, clock, runs, ingest_runs, pipeline>>

----------------------------------------------------------------------------
(* ingestion/flags.py *)

FlagType ==
    [CEO_CFO_PURCHASE |-> "CEO_CFO_PURCHASE", CLUSTER_BUY |-> "CLUSTER_BUY",
     LARGE_PURCHASE |-> "LARGE_PURCHASE", FIRST_PURCHASE |-> "FIRST_PURCHASE",
     REVERSAL_BUY |-> "REVERSAL_BUY", BULL_REVERSAL |-> "BULL_REVERSAL",
     CONVICTION_BUY |-> "CONVICTION_BUY", DIP_BUY |-> "DIP_BUY"]

\* A Flag object as a detector builds it. insider_name is the list of names
\* the column holds: one name, or the names the cluster detector joins.
\* trigger (ghost) is the id of the transaction row the detector was looking
\* at when it built the flag. The description text is not kept; building it
\* can raise, which FormatRaises models.
Flag(ticker, names, accession_no, flag_type, severity, trigger) ==
    [ticker |-> ticker, insider_name |-> names, accession_no |-> accession_no,
     flag_type |-> flag_type, severity |-> severity, is_dismissed |-> FALSE,
     trigger |-> trigger]

\* f"{x:,.0f}" and f"{x:.2f}" raise TypeError when x is None.
FormatRaises(x) == x = None

\* date.today(), one day per clock reading.
Today == 100 + clock

_already_flagged(session, accession_no, flag_type) ==
    \E i \in DOMAIN session :
        /\ session[i].accession_no = accession_no
        /\ session[i].flag_type = flag_type

\* What one pass of a detector's loop body does: continue, append a flag,
\* or raise.
Skip == [kind |-> "skip"]

Raise == [kind |-> "raise"]

Emit(flag) == [kind |-> "flag", flag |-> flag]

\* A detector loop, given the outcome of each pass in loop order: it raises
\* if any pass raises, otherwise it returns the appended flags in order.
DetectorLoop(outcomes) ==
    LET hit == SelectSeq(outcomes, LAMBDA o : o.kind = "flag")
    IN  [raised |-> \E i \in DOMAIN outcomes : outcomes[i].kind = "raise",
         flags  |-> [i \in DOMAIN hit |-> hit[i].flag]]

\* if f.transaction_code != "P" or f.is_derivative: continue
IsOpenMarketBuy(f) == f.transaction_code = "P" /\ ~f.is_derivative

\* Titles whose lower-cased text contains "chief executive", "ceo",
\* "chief financial" or "cfo".
TitleIsCeoCfo(title) ==
    title \in {"CEO", "CFO", "Chief Executive Officer", "Chief Financial Officer"}

CeoCfoOutcome(f, session) ==
    IF ~IsOpenMarketBuy(f) THEN Skip
    ELSE IF ~TitleIsCeoCfo(f.officer_title) THEN Skip
    ELSE IF _already_flagged(session, f.accession_no, FlagType.CEO_CFO_PURCHASE) THEN Skip
    ELSE IF FormatRaises(f.shares) \/ FormatRaises(f.price) THEN Raise
    ELSE Emit(Flag(f.ticker, <<f.insider_name>>, f.accession_no,
                   FlagType.CEO_CFO_PURCHASE, "HIGH", f.id))

_flag_ceo_cfo_purchases(new_filings, session) ==
    DetectorLoop([i \in DOMAIN new_filings |-> CeoCfoOutcome(new_filings[i], session)])

\* A mutation of LargeOutcome: a value of exactly 2,000,000 is MEDIUM.
LargeOutcomeHighAbove(f, session) ==
    LET threshold == 500000
    IN  IF ~IsOpenMarketBuy(f) THEN Skip
        ELSE IF ~Truthy(f.value) \/ Val(f.value) < threshold THEN Skip
        ELSE IF _already_flagged(session, f.accession_no, FlagType.LARGE_PURCHASE) THEN Skip
        ELSE IF FormatRaises(f.shares) THEN Raise
        ELSE Emit(Flag(f.ticker, <<f.insider_name>>, f.accession_no,
                       FlagType.LARGE_PURCHASE,
                       IF Val(f.value) > 2000000 THEN "HIGH" ELSE "MEDIUM", f.id))

LargeOutcome(f, session) ==
    LET threshold == 500000
    IN  IF ~IsOpenMarketBuy(f) THEN Skip
        ELSE IF ~Truthy(f.value) \/ Val(f.value) < threshold THEN Skip
        ELSE IF _already_flagged(session, f.accession_no, FlagType.LARGE_PURCHASE) THEN Skip
        ELSE IF FormatRaises(f.shares) THEN Raise
        ELSE Emit(Flag(f.ticker, <<f.insider_name>>, f.accession_no,
                       FlagType.LARGE_PURCHASE,
                       IF Val(f.value) >= 2000000 THEN "HIGH" ELSE "MEDIUM", f.id))

_flag_large_purchases(new_filings, session) ==
    DetectorLoop([i \in DOMAIN new_filings |-> LargeOutcome(new_filings[i], session)])

Min(S) == CHOOSE x \in S : \A y \in S : x <= y

\* The distinct tickers of buys in order of first appearance (dict order).
TickersInOrder(buys) ==
    LET ts       == {b.ticker : b \in Range(buys)}
        First(t) == Min({i \in DOMAIN buys : buys[i].ticker = t})
        Rank(t)  == Cardinality({u \in ts : First(u) < First(t)}) + 1
    IN  [r \in 1..Cardinality(ts) |-> CHOOSE t \in ts : Rank(t) = r]

\* The anchor loop of one ticker: the first anchor whose 7-day window holds
\* 3 distinct insiders and whose cluster accession is not yet flagged builds
\* the flag and ends the loop; sorted() raises on a missing name among names.
ClusterOutcome(ticker, buys, session) ==
    LET ticker_buys  == SortedByDate(SelectSeq(buys, LAMBDA b : b.ticker = ticker),
                                     TxnDates(SelectSeq(buys, LAMBDA b : b.ticker = ticker)))
        n            == Len(ticker_buys)
        Cluster(i)   == SelectSeq(SubSeq(ticker_buys, i, n),
                            LAMBDA b : Val(b.transaction_date)
                                       <= Val(ticker_buys[i].transaction_date) + 7)
        Insiders(i)  == {b.insider_name : b \in Range(Cluster(i))}
        AccNo(i)     == Min({b.accession_no : b \in Range(Cluster(i))})
        anchors      == {i \in 1..n :
                            /\ Cardinality(Insiders(i)) >= 3
                            /\ ~_already_flagged(session, AccNo(i), FlagType.CLUSTER_BUY)}
    IN  IF anchors = {} THEN Skip
        ELSE LET i      == Min(anchors)
                 sorted == SelectSeq(INSIDER_NAMES, LAMBDA nm : nm \in Insiders(i))
                 names  == SubSeq(sorted, 1, IF Len(sorted) < 5 THEN Len(sorted) ELSE 5)
             IN  IF NULL \in Insiders(i) THEN Raise
                 ELSE Emit(Flag(ticker, names, AccNo(i), FlagType.CLUSTER_BUY,
                                "HIGH", ticker_buys[i].id))

_flag_cluster_buys(new_filings, session) ==
    LET buys == SelectSeq(new_filings,
                    LAMBDA f : IsOpenMarketBuy(f) /\ f.transaction_date # None)
        tickers == TickersInOrder(buys)
    IN  DetectorLoop([k \in DOMAIN tickers |-> ClusterOutcome(tickers[k], buys, session)])

FirstPurchaseOutcome(f, session) ==
    LET prior == \E r \in Range(filings) :
                     /\ r.ticker = f.ticker
                     /\ r.insider_name = f.insider_name
                     /\ r.transaction_code = "P"
                     /\ r.accession_no # f.accession_no
    IN  IF ~IsOpenMarketBuy(f) THEN Skip
        ELSE IF _already_flagged(session, f.accession_no, FlagType.FIRST_PURCHASE) THEN Skip
        ELSE IF prior THEN Skip
        ELSE IF FormatRaises(f.shares) \/ FormatRaises(f.price) THEN Raise
        ELSE Emit(Flag(f.ticker, <<f.insider_name>>, f.accession_no,
                       FlagType.FIRST_PURCHASE, "MEDIUM", f.id))

_flag_first_purchases(new_filings, session) ==
    DetectorLoop([i \in DOMAIN new_filings |-> FirstPurchaseOutcome(new_filings[i], session)])

ReversalOutcome(f, session) ==
    LET cutoff == Today - 90
        recent == {r \in Range(filings) :
                      /\ r.ticker = f.ticker
                      /\ r.insider_name = f.insider_name
                      /\ r.transaction_date # None
                      /\ Val(r.transaction_date) >= cutoff
                      /\ r.transaction_code \in {"P", "S"}
                      /\ r.accession_no # f.accession_no}
        had_sells == \E r \in recent : r.transaction_code = "S"
        had_buys  == \E r \in recent : r.transaction_code = "P"
    IN  IF ~IsOpenMarketBuy(f) THEN Skip
        ELSE IF _already_flagged(session, f.accession_no, FlagType.REVERSAL_BUY) THEN Skip
        ELSE IF ~(had_sells /\ ~had_buys) THEN Skip
        ELSE IF FormatRaises(f.shares) \/ FormatRaises(f.price) THEN Raise
        ELSE Emit(Flag(f.ticker, <<f.insider_name>>, f.accession_no,
                       FlagType.REVERSAL_BUY, "MEDIUM", f.id))

_flag_reversal_buys(new_filings, session) ==
    DetectorLoop([i \in DOMAIN new_filings |-> ReversalOutcome(new_filings[i], session)])

\* A mutation of SortedByDateDesc: the order_by is dropped and the rows come
\* in id order.
UnsortedPrior(s) == s

\* order_by(transaction_date.desc()) over dated rows; rows of one date keep
\* their id order.
SortedByDateDesc(s) ==
    LET n == Len(s)
        Lt(i, j) == \/ Val(s[i].transaction_date) > Val(s[j].transaction_date)
                    \/ (Val(s[i].transaction_date) = Val(s[j].transaction_date) /\ i < j)
        Rank(i) == Cardinality({j \in 1..n : Lt(j, i)}) + 1
    IN  [r \in 1..n |-> s[CHOOSE i \in 1..n : Rank(i) = r]]

\* desc (ghost) names which of the two description texts was built.
BullReversalOutcome(f, session) ==
    LET prior == SortedByDateDesc(SelectSeq(filings, LAMBDA r :
                     /\ r.ticker = f.ticker
                     /\ r.insider_name = f.insider_name
                     /\ r.transaction_code \in {"P", "S"}
                     /\ r.is_derivative = FALSE
                     /\ r.transaction_date # None
                     /\ Val(r.transaction_date) < Val(f.transaction_date)))
        non_sells == {k \in DOMAIN prior : prior[k].transaction_code # "S"}
        consecutive_sells == IF non_sells = {} THEN Len(prior) ELSE Min(non_sells) - 1
        all_prior_sells == {t \in Range(prior) : t.transaction_code = "S"}
        all_prior_buys  == {t \in Range(prior) : t.transaction_code = "P"}
        sell_span_days ==
            IF all_prior_sells # {} /\ all_prior_buys = {}
            THEN Val(f.transaction_date)
                 - Min({Val(t.transaction_date) : t \in all_prior_sells})
            ELSE 0
    IN  IF ~IsOpenMarketBuy(f) THEN Skip
        ELSE IF f.transaction_date = None THEN Skip
        ELSE IF _already_flagged(session, f.accession_no, FlagType.BULL_REVERSAL) THEN Skip
        ELSE IF prior = <<>> THEN Skip
        ELSE IF consecutive_sells >= 3 \/ sell_span_days >= 365
             THEN IF FormatRaises(f.shares) \/ FormatRaises(f.price) THEN Raise
                  ELSE Emit([desc |-> IF consecutive_sells >= 3
                                      THEN "consecutive transactions"
                                      ELSE "exclusively selling"]
                            @@ Flag(f.ticker, <<f.insider_name>>, f.accession_no,
                                    FlagType.BULL_REVERSAL, "HIGH", f.id))
        ELSE Skip

_flag_bull_reversals(new_filings, session) ==
    DetectorLoop([i \in DOMAIN new_filings |-> BullReversalOutcome(new_filings[i], session)])

\* A mutation of ConvictionOutcome: an increase of exactly 10% is skipped.
ConvictionOutcomeAbove10(f, session) ==
    IF ~IsOpenMarketBuy(f) THEN Skip
    ELSE IF ~Truthy(f.shares) \/ ~Truthy(f.shares_remaining) THEN Skip
    ELSE LET prior_shares == Val(f.shares_remaining) - Val(f.shares)
         IN  IF prior_shares <= 0 THEN Skip
             ELSE IF 10 * Val(f.shares) <= prior_shares THEN Skip
             ELSE IF _already_flagged(session, f.accession_no, FlagType.CONVICTION_BUY)
                  THEN Skip
             ELSE Emit(Flag(f.ticker, <<f.insider_name>>, f.accession_no,
                            FlagType.CONVICTION_BUY,
                            IF 4 * Val(f.shares) >= prior_shares THEN "HIGH" ELSE "MEDIUM",
                            f.id))

\* pct_increase = shares / prior_shares compared with 0.10 and 0.25, in
\* integers.
ConvictionOutcome(f, session) ==
    IF ~IsOpenMarketBuy(f) THEN Skip
    ELSE IF ~Truthy(f.shares) \/ ~Truthy(f.shares_remaining) THEN Skip
    ELSE LET prior_shares == Val(f.shares_remaining) - Val(f.shares)
         IN  IF prior_shares <= 0 THEN Skip
             ELSE IF 10 * Val(f.shares) < prior_shares THEN Skip
             ELSE IF _already_flagged(session, f.accession_no, FlagType.CONVICTION_BUY)
                  THEN Skip
             ELSE Emit(Flag(f.ticker, <<f.insider_name>>, f.accession_no,
                            FlagType.CONVICTION_BUY,
                            IF 4 * Val(f.shares) >= prior_shares THEN "HIGH" ELSE "MEDIUM",
                            f.id))

_flag_conviction_buys(new_filings, session) ==
    DetectorLoop([i \in DOMAIN new_filings |-> ConvictionOutcome(new_filings[i], session)])

\* The latest close of the ticker dated on or before day, or None.
CloseOnOrBefore(ticker, day) ==
    LET rows == {p \in PricesOf(ticker) : p.date <= day}
    IN  IF rows = {} THEN None
        ELSE Some((CHOOSE p \in rows : \A q \in rows : p.date >= q.date).close)

\* txn_price / close in double arithmetic lies above the exact quotient:
\* 4/5 is no double, the nearest one is 0.8000000000000000444. (1/2, the
\* quotient at the other limit, is a double.)
QuotientRoundsUp(txn_price, close) == RDiv(txn_price, RInt(close)) = Rat(4, 5)

\* (txn_price / close - 1) * 100 <= limit, for close # 0, as the doubles
\* compare: away from the limit as the exact values do; exactly at the limit
\* a quotient that was rounded up gives a result above it
\* ((80.0 / 100.0 - 1) * 100 = -19.999999999999996).
DownAtLeast(txn_price, close, limit) ==
    LET pct == RMul(RSub(RDiv(txn_price, RInt(close)), RInt(1)), RInt(100))
    IN  \/ pct[1] < limit * pct[2]
        \/ pct[1] = limit * pct[2] /\ ~QuotientRoundsUp(txn_price, close)

DipOutcome(f, session) ==
    LET looked_up == get_price_on_or_after(f.ticker, Val(f.transaction_date))
        txn_price == IF Truthy(f.price) /\ Val(f.price) > 0 THEN ToRat(f.price)
                     ELSE looked_up
        row_1yr   == CloseOnOrBefore(f.ticker, Val(f.transaction_date) - 365)
        row_1mo   == CloseOnOrBefore(f.ticker, Val(f.transaction_date) - 30)
        divides_by_zero == \/ (row_1yr # None /\ Val(row_1yr) = 0)
                           \/ (row_1mo # None /\ Val(row_1mo) = 0)
        reasons   == \/ (row_1yr # None /\ DownAtLeast(txn_price, Val(row_1yr), -50))
                     \/ (row_1mo # None /\ DownAtLeast(txn_price, Val(row_1mo), -20))
    IN  IF ~IsOpenMarketBuy(f) THEN Skip
        ELSE IF f.transaction_date = None THEN Skip
        ELSE IF _already_flagged(session, f.accession_no, FlagType.DIP_BUY) THEN Skip
        ELSE IF ~Truthy(txn_price) THEN Skip
        ELSE IF divides_by_zero THEN Raise
        ELSE IF ~reasons THEN Skip
        ELSE IF FormatRaises(f.shares) THEN Raise
        ELSE Emit(Flag(f.ticker, <<f.insider_name>>, f.accession_no,
                       FlagType.DIP_BUY, "HIGH", f.id))

_flag_dip_buys(new_filings, session) ==
    DetectorLoop([i \in DOMAIN new_filings |-> DipOutcome(new_filings[i], session)])

RECURSIVE Concat(_)
Concat(ss) == IF ss = <<>> THEN <<>> ELSE Head(ss) \o Concat(Tail(ss))

\* The eight detectors in the order detect_and_save_flags calls them.
AllDetectors(new_filings, session) ==
    LET rs == <<_flag_ceo_cfo_purchases(new_filings, session),
                _flag_large_purchases(new_filings, session),
                _flag_cluster_buys(new_filings, session),
                _flag_first_purchases(new_filings, session),
                _flag_reversal_buys(new_filings, session),
                _flag_bull_reversals(new_filings, session),
                _flag_conviction_buys(new_filings, session),
                _flag_dip_buys(new_filings, session)>>
    IN  [raised |-> \E k \in DOMAIN rs : rs[k].raised,
         flags  |-> Concat([k \in DOMAIN rs |-> rs[k].flags])]

\* A mutation of AddAll: the batch's flags replace the table, and dismissals
\* are lost.
AddAllReplacing(session, all_flags, now) ==
    [i \in DOMAIN all_flags |-> [flagged_at |-> now] @@ all_flags[i]]

\* session.add of every flag, then commit; flagged_at defaults to utcnow().
AddAll(session, all_flags, now) ==
    session \o [i \in DOMAIN all_flags |-> [flagged_at |-> now] @@ all_flags[i]]

\* The body of detect_and_save_flags on the flags table. storeFails: the
\* store raises, on the first query when the batch selects no row and on
\* commit otherwise.
DetectRun(session, new_filing_ids, storeFails) ==
    LET new_filings == SelectSeq(filings, LAMBDA r : r.id \in new_filing_ids)
        det         == AllDetectors(new_filings, session)
    IN  IF new_filings = <<>>
        THEN IF storeFails
             THEN [store |-> SessionRollback(session, session), raised |-> TRUE,
                   returned |-> None]
             ELSE [store |-> session, raised |-> FALSE, returned |-> Some(0)]
        ELSE IF det.raised
        THEN [store |-> SessionRollback(session, session), raised |-> TRUE,
              returned |-> None]
        ELSE IF storeFails
        THEN [store |-> SessionRollback(session, AddAll(session, det.flags, clock)),
              raised |-> TRUE, returned |-> None]
        ELSE [store |-> AddAll(session, det.flags, clock), raised |-> FALSE,
              returned |-> Some(Len(det.flags))]

detect_and_save_flags(new_filing_ids, storeFails) ==
    /\ runs < MaxRuns
    /\ \E r \in {DetectRun(flags, new_filing_ids, storeFails)} :
        /\ runs' = runs + 1
        /\ flags' = r.store
        /\ lastOp' = [kind |-> "detect", batch |-> new_filing_ids,
                      raised |-> r.raised, returned |-> r.returned,
                      added |-> Len(r.store) - Len(flags),
                      storeFails |-> storeFails]
        /\ UNCHANGED <<filings, prices, analytics, clock, ingest_runs, pipeline>>

----------------------------------------------------------------------------

\* One call of _price_pct on the arguments drawn at the start.
price_pct_call ==
    /\ lastOp.kind = "price_pct_args"
    /\ lastOp' = [kind |-> "price_pct", price_a |-> lastOp.price_a,
                  price_b |-> lastOp.price_b,
                  result |-> _price_pct(lastOp.price_a, lastOp.price_b)]
    /\ UNCHANGED <<filings, prices, flags, analytics, clock, runs, ingest_runs, pipeline>>

\* One call of _wacb on the columns drawn at the start.
wacb_call ==
    /\ lastOp.kind = "wacb_args"
    /\ lastOp' = [kind |-> "wacb", shares |-> lastOp.shares, prices |-> lastOp.prices,
                  result |-> _wacb(lastOp.shares, lastOp.prices)]
    /\ UNCHANGED <<filings, prices, flags, analytics, clock, runs, ingest_runs, pipeline>>

\* Time passes: datetime.utcnow() reads a later instant.
Tick ==
    /\ clock < MaxClock
    /\ clock' = clock + 1
    /\ UNCHANGED <<filings, prices, flags, analytics, lastOp, runs, ingest_runs, pipeline>>

----------------------------------------------------------------------------
(* Stores the analytics orchestrator is run on *)

\* Row shapes as the fetchers produce them (fetchers.py lines 96-203).
\* A Form-3 holding: no transaction date, no code, the balance held.
ShapeForm3 ==
    [fdate |-> Some(5), title |-> NULL, tdate |-> None, code |-> NULL,
     sh |-> Some(500), px |-> None, rem |-> Some(500), deriv |-> FALSE]

\* A Form-4 open-market purchase with the balance after it.
ShapeBuy ==
    [fdate |-> Some(12), title |-> "CFO", tdate |-> Some(10), code |-> "P",
     sh |-> Some(100), px |-> Some(10), rem |-> Some(600), deriv |-> FALSE]

\* A Form-4 open-market sale that reports no balance.
ShapeSell ==
    [fdate |-> Some(22), title |-> "CEO", tdate |-> Some(20), code |-> "S",
     sh |-> Some(50), px |-> Some(20), rem |-> None, deriv |-> FALSE]

\* A Form-4 derivative transaction (option exercise).
ShapeOption ==
    [fdate |-> Some(32), title |-> "CEO", tdate |-> Some(30), code |-> "M",
     sh |-> Some(10), px |-> None, rem |-> Some(900), deriv |-> TRUE]

\* A row of a catalogue: who filed which shape, for which ticker.
Proto(ticker, name, acc, shape) ==
    [ticker |-> ticker, name |-> name, acc |-> acc, shape |-> shape]

\* The table holding the rows described by protos, ids in insertion order.
MkStore(protos) ==
    [i \in DOMAIN protos |->
        Section16Filing(i, protos[i].acc, protos[i].ticker, protos[i].shape.fdate,
                        protos[i].name, protos[i].shape.title, protos[i].shape.tdate,
                        protos[i].shape.code, protos[i].shape.sh, protos[i].shape.px,
                        protos[i].shape.rem, protos[i].shape.deriv)]

\* The subsequence of cat at the indices in keep.
RECURSIVE Pick(_, _)
Pick(cat, keep) ==
    IF cat = <<>> THEN <<>>
    ELSE Pick(SubSeq(cat, 1, Len(cat) - 1), keep)
         \o (IF Len(cat) \in keep THEN <<cat[Len(cat)]>> ELSE <<>>)

\* Every store made of rows of the catalogue, in catalogue order.
StoresOf(cat) == {MkStore(Pick(cat, keep)) : keep \in SUBSET DOMAIN cat}

\* The rows the analytics stores are drawn from. One filing reports no
\* owner (fetchers.py line 50), so its row has no insider name.
AnalyticsCatalogue ==
    <<Proto("NVDA", "Adams", 12, ShapeBuy),
      Proto("NVDA", "Adams", 11, ShapeForm3),
      Proto("NVDA", "Adams", 13, ShapeSell),
      Proto("NVDA", "Adams", 14, ShapeOption),
      Proto("NVDA", "Baker", 21, ShapeForm3),
      Proto("NVDA", NULL,    32, ShapeBuy),
      Proto("AAPL", "Adams", 42, ShapeBuy)>>

AnalyticsStores == StoresOf(AnalyticsCatalogue)

\* A price history: closes on trading days only, none yet for AAPL.
PriceSeries ==
    {[ticker |-> "NVDA", date |-> 10, close |-> 10],
     [ticker |-> "NVDA", date |-> 20, close |-> 20],
     [ticker |-> "NVDA", date |-> 40, close |-> 30]}

InitAnalytics ==
    /\ filings \in AnalyticsStores
    /\ prices = PriceSeries
    /\ flags = <<>>
    /\ analytics = <<>>
    /\ clock = 0
    /\ runs = 0
    /\ ingest_runs = <<>>
    /\ pipeline = [pc |-> "idle", utc |-> 0]
    /\ lastOp = [kind |-> "init"]

\* Single-ticker refreshes at any time, with any failure of the store.
NextAnalytics ==
    \/ Tick
    \/ \E t \in Range(COMPANIES), failAt \in 0..(Len(filings) + 1) :
           refresh_analytics_for_ticker(t, failAt)

SpecAnalytics == InitAnalytics /\ [][NextAnalytics]_vars

\* Whole-watchlist refreshes at any time, with any failure of the store.
NextRefreshAll ==
    \/ Tick
    \/ \E failTicker \in 0..Len(COMPANIES), failAt \in 0..(Len(filings) + 1) :
           refresh_all_analytics(failTicker, failAt)

SpecRefreshAll == InitAnalytics /\ [][NextRefreshAll]_vars

\* Optional[float] arguments of _price_pct: missing, negative, zero, positive,
\* whole and fractional.
PctInputs == {None} \cup {Rat(n, d) : n \in (-2)..MaxPrice, d \in {1, 2}}

InitPricePct ==
    /\ filings = <<>>
    /\ prices = {}
    /\ flags = <<>>
    /\ analytics = <<>>
    /\ clock = 0
    /\ runs = 0
    /\ ingest_runs = <<>>
    /\ pipeline = [pc |-> "idle", utc |-> 0]
    /\ lastOp \in [kind : {"price_pct_args"}, price_a : PctInputs, price_b : PctInputs]

NextPricePct == price_pct_call

SpecPricePct == InitPricePct /\ [][NextPricePct]_vars

----------------------------------------------------------------------------
(* Stores flag detection is run on *)

\* A Form-4 open-market purchase on the given day by a holder of the title.
BuyOn(day, title) ==
    [ShapeBuy EXCEPT !.tdate = Some(day), !.fdate = Some(day + 2), !.title = title]

\* A Form-4 open-market purchase whose transaction date could not be read.
ShapeUndatedBuy == [ShapeBuy EXCEPT !.tdate = None]

\* One filing of the chief executive with two purchase lines, purchases by
\* three more insiders in the same week, and an undated purchase.
FlagCatalogue ==
    <<Proto("NVDA", "Adams", 51, BuyOn(10, "CEO")),
      Proto("NVDA", "Adams", 51, BuyOn(11, "CEO")),
      Proto("NVDA", "Baker", 52, BuyOn(12, NULL)),
      Proto("NVDA", "Clark", 53, BuyOn(13, NULL)),
      Proto("NVDA", "Davis", 54, BuyOn(14, NULL)),
      Proto("NVDA", "Baker", 55, ShapeUndatedBuy)>>

FlagStores == StoresOf(FlagCatalogue)

InitFlags ==
    /\ filings \in FlagStores
    /\ prices = PriceSeries
    /\ flags = <<>>
    /\ analytics = <<>>
    /\ clock = 0
    /\ runs = 0
    /\ ingest_runs = <<>>
    /\ pipeline = [pc |-> "idle", utc |-> 0]
    /\ lastOp = [kind |-> "init"]

\* Detection runs over any batch of stored row ids, at any time, with or
\* without a failure of the store.
NextFlags ==
    \/ Tick
    \/ \E ids \in SUBSET {r.id : r \in Range(filings)}, storeFails \in BOOLEAN :
           detect_and_save_flags(ids, storeFails)

SpecFlags == InitFlags /\ [][NextFlags]_vars

----------------------------------------------------------------------------
(* The whole engine: any store above, any operation at any time *)

Init == InitAnalytics \/ InitFlags \/ InitPricePct

Next ==
    \/ Tick
    \/ \E t \in Range(COMPANIES), failAt \in 0..(Len(filings) + 1) :
           refresh_analytics_for_ticker(t, failAt)
    \/ \E failTicker \in 0..Len(COMPANIES), failAt \in 0..(Len(filings) + 1) :
           refresh_all_analytics(failTicker, failAt)
    \/ \E ids \in SUBSET {r.id : r \in Range(filings)}, storeFails \in BOOLEAN :
           detect_and_save_flags(ids, storeFails)
    \/ price_pct_call

Spec == Init /\ [][Next]_vars

----------------------------------------------------------------------------
(* Properties of the analytics orchestrator *)

StripStamp(rec) == [f \in DOMAIN rec \ {"computed_at"} |-> rec[f]]

Stripped(store) == [i \in DOMAIN store |-> StripStamp(store[i])]

Attributed(tbl) == SelectSeq(tbl, LAMBDA r : r.insider_name # NULL)

WatchlistIndex(ticker) == CHOOSE k \in DOMAIN COMPANIES : COMPANIES[k] = ticker

\* C3: when the refresh of one watchlist ticker raises inside
\* refresh_all_analytics, the refresh is still invoked for every later ticker
\* of the watchlist and their analytics records are committed.
C3_LaterTickersRefreshed ==
    (lastOp.kind = "refresh_all" /\ lastOp.failed # NULL) =>
        \A i \in DOMAIN COMPANIES :
            i > WatchlistIndex(lastOp.failed) =>
                /\ COMPANIES[i] \in lastOp.invoked
                /\ \A n \in NamedInsiders(COMPANIES[i]) :
                       Len(RecordsFor(analytics, COMPANIES[i], n)) = 1

\* C4: a refresh_analytics_for_ticker call that raises leaves the analytics
\* table exactly as it was before the call: no insider of the ticker is
\* partially updated and the records of other tickers are unchanged.
C4_FailedRefreshChangesNothing ==
    [][(lastOp'.kind = "refresh" /\ lastOp'.raised) => analytics' = analytics]_vars

\* A refresh raised after writing at least one insider, its ticker has no
\* record, and an earlier refresh of another ticker stays committed.
C4_Witness ==
    /\ lastOp.kind = "refresh" /\ lastOp.raised /\ lastOp.written >= 1
    /\ RecordsOf(analytics, lastOp.ticker) = <<>>
    /\ analytics # <<>>

\* A step that runs refresh_analytics_for_ticker successfully on the ticker
\* whose refresh was the last call before it, and succeeded.
C5_Rerun ==
    /\ lastOp.kind = "refresh" /\ ~lastOp.raised
    /\ lastOp'.kind = "refresh" /\ ~lastOp'.raised
    /\ lastOp'.ticker = lastOp.ticker
    /\ clock' = clock

\* C5 as stated: a second refresh of a ticker on unchanged transactions and
\* prices leaves every analytics record of the ticker identical, field for
\* field, to what it was after the first refresh.
C5_RerunIdenticalRecords ==
    [][C5_Rerun => RecordsOf(analytics', lastOp.ticker)
                   = RecordsOf(analytics, lastOp.ticker)]_vars

\* C5 amended: a second refresh of a ticker on unchanged transactions and
\* prices leaves every analytics record identical in every field except
\* computed_at, which is set to the time of the second refresh.
C5_RerunIdenticalButStamp ==
    [][C5_Rerun => /\ Stripped(analytics') = Stripped(analytics)
                   /\ \A a \in Range(RecordsOf(analytics', lastOp.ticker)) :
                          a.computed_at = clock']_vars

\* A ticker whose records were all written at an earlier time has just been
\* refreshed again, successfully.
C5_Witness ==
    /\ lastOp.kind = "refresh" /\ ~lastOp.raised
    /\ lastOp.before # {} /\ \A t \in lastOp.before : t < clock
    /\ RecordsOf(analytics, lastOp.ticker) # <<>>

\* C6: the analytics table never holds two records of one (ticker,
\* insider_name) pair; a ticker that has records has exactly one for every
\* insider with a transaction row of the ticker; and a successful refresh
\* returns the number of distinct non-null insider names among the ticker's
\* rows, leaving one record for each of them.
C6_OneRecordPerInsider ==
    /\ \A i, j \in DOMAIN analytics :
           (analytics[i].ticker = analytics[j].ticker
            /\ analytics[i].insider_name = analytics[j].insider_name) => i = j
    /\ \A t \in Range(COMPANIES) :
           RecordsOf(analytics, t) # <<>> =>
               \A n \in NamedInsiders(t) : Len(RecordsFor(analytics, t, n)) = 1
    /\ (lastOp.kind = "refresh" /\ ~lastOp.raised) =>
           /\ lastOp.returned =
                  Some(Cardinality({r.insider_name : r \in Range(RowsOfTicker(lastOp.ticker))}
                                   \ {NULL}))
           /\ \A n \in NamedInsiders(lastOp.ticker) :
                  Len(RecordsFor(analytics, lastOp.ticker, n)) = 1

\* A successful refresh of a ticker with two insiders overwrote the records
\* an earlier refresh had written.
C6_Witness ==
    /\ lastOp.kind = "refresh" /\ ~lastOp.raised
    /\ lastOp.before # {}
    /\ lastOp.returned = Some(2)

\* C7: rows without an insider name raise no error, produce no analytics
\* record, are not counted in the returned total, and leave the analytics of
\* every other insider of the ticker as they are computed without those rows.
C7_MissingIdentityExcluded ==
    /\ \A i \in DOMAIN analytics : analytics[i].insider_name # NULL
    /\ (lastOp.kind = "refresh" /\ RowsOfInsider(lastOp.ticker, NULL) # <<>>) =>
           /\ lastOp.failAt = 0 => ~lastOp.raised
           /\ ~lastOp.raised =>
                  /\ lastOp.returned = Some(NumInsiders(lastOp.ticker))
                  /\ Len(RecordsOf(analytics, lastOp.ticker)) = NumInsiders(lastOp.ticker)
                  /\ \A n \in NamedInsiders(lastOp.ticker) :
                         \E i \in DOMAIN analytics :
                             StripStamp(analytics[i]) =
                                 _compute_for_insider(lastOp.ticker, n,
                                     GroupOf(Attributed(filings), lastOp.ticker, n))

\* A ticker with an unattributed row and an attributed insider was refreshed.
C7_Witness ==
    /\ lastOp.kind = "refresh" /\ ~lastOp.raised
    /\ RowsOfInsider(lastOp.ticker, NULL) # <<>>
    /\ lastOp.returned # Some(0)

\* C8: _price_pct returns no value when the base is missing or <= 0 or the
\* new price is missing, and in every other case, new = 0 included, exactly
\* (new - base) / base * 100.
C8_PercentChange ==
    lastOp.kind = "price_pct" =>
        LET a == lastOp.price_a
            b == lastOp.price_b
        IN  IF a = None \/ b = None \/ a[1] <= 0
            THEN lastOp.result = None
            ELSE lastOp.result = RMul(RDiv(RSub(b, a), a), RInt(100))

\* C9: the last reported share balance of an analytics record is the
\* shares_remaining of the non-derivative row with the greatest transaction
\* date among those carrying a balance; an undated row is never chosen over
\* a dated one, and without any balance the field has no value.
C9_LatestDatedBalance ==
    \A i \in DOMAIN analytics :
        LET a     == analytics[i]
            cand  == {r \in Range(filings) :
                         /\ r.ticker = a.ticker /\ r.insider_name = a.insider_name
                         /\ ~r.is_derivative /\ r.shares_remaining # None}
            dated == {r \in cand : r.transaction_date # None}
        IN  /\ cand = {} => a.last_reported_shares = None
            /\ dated # {} =>
                   \E r \in dated :
                       /\ \A q \in dated :
                              Val(q.transaction_date) <= Val(r.transaction_date)
                       /\ a.last_reported_shares = ToRat(r.shares_remaining)

----------------------------------------------------------------------------
(* Properties of flag detection *)

\* C1: the flag table never holds two flag records with the same
\* (accession_no, flag_type) pair, whatever batches detect_and_save_flags
\* has been run on, one filing with several purchase lines included.
C1_NoDuplicateFlags ==
    \A i, j \in DOMAIN flags :
        (flags[i].accession_no = flags[j].accession_no
         /\ flags[i].flag_type = flags[j].flag_type) => i = j

\* A step that runs detect_and_save_flags to completion on the batch that the
\* call before it, also completed, was run on.
C2_Rerun ==
    /\ lastOp.kind = "detect" /\ ~lastOp.raised
    /\ lastOp'.kind = "detect" /\ ~lastOp'.raised
    /\ lastOp'.batch = lastOp.batch
    /\ runs' = runs + 1

\* C2: flag detection is idempotent: a second detect_and_save_flags run on
\* the same batch, with the transaction and price stores unchanged, returns 0
\* and adds no flag record, for every detector.
C2_DetectionIdempotent ==
    [][C2_Rerun => (lastOp'.returned = Some(0) /\ flags' = flags)]_vars

\* C10: every flag in the store was triggered by a transaction row that is
\* not a derivative row and has a transaction date.
C10_TriggerDatedNonDerivative ==
    \A i \in DOMAIN flags :
        /\ ~filings[flags[i].trigger].is_derivative
        /\ filings[flags[i].trigger].transaction_date # None

----------------------------------------------------------------------------
(* Detector scenarios: small stores, each built to exercise one detector *)

\* A scenario: the catalogue its stores are drawn from and a price history.
Scenario(rows, series) == [rows |-> rows, prices |-> series]

\* Form-4 purchases whose price or share count the filing does not report.
ShapeBuyNoPrice == [ShapeBuy EXCEPT !.px = None]

ShapeBuyNoShares == [ShapeBuy EXCEPT !.sh = None]

\* A complete purchase of the chief executive next to two incomplete ones.
MissingDataCatalogue ==
    <<Proto("NVDA", "Adams", 61, BuyOn(10, "CEO")),
      Proto("NVDA", "Baker", 62, ShapeBuyNoPrice),
      Proto("NVDA", "Clark", 63, ShapeBuyNoShares)>>

\* Two insiders buying on the same day, two more in the days after.
ClusterTieCatalogue ==
    <<Proto("NVDA", "Adams", 71, BuyOn(10, NULL)),
      Proto("NVDA", "Baker", 72, BuyOn(10, NULL)),
      Proto("NVDA", "Clark", 73, BuyOn(11, NULL)),
      Proto("NVDA", "Davis", 74, BuyOn(12, NULL))>>

\* An insider who sold within the last 90 days and now buys.
ReversalCatalogue ==
    <<Proto("NVDA", "Adams", 81, ShapeSell),
      Proto("NVDA", "Adams", 82, BuyOn(30, NULL))>>

DetectScenarios ==
    {Scenario(MissingDataCatalogue, PriceSeries),
     Scenario(ClusterTieCatalogue, PriceSeries),
     Scenario(ReversalCatalogue, PriceSeries)}

InitDetect ==
    /\ \E sc \in DetectScenarios :
           /\ filings \in StoresOf(sc.rows)
           /\ prices = sc.prices
    /\ flags = <<>>
    /\ analytics = <<>>
    /\ clock = 0
    /\ runs = 0
    /\ ingest_runs = <<>>
    /\ pipeline = [pc |-> "idle", utc |-> 0]
    /\ lastOp = [kind |-> "init"]

NextDetect ==
    \/ Tick
    \/ \E ids \in SUBSET {r.id : r \in Range(filings)}, storeFails \in BOOLEAN :
           detect_and_save_flags(ids, storeFails)

SpecDetect == InitDetect /\ [][NextDetect]_vars

\* The rows a batch of ids selects.
BatchRows(ids) == {r \in Range(filings) : r.id \in ids}

\* C11: a detection run whose batch holds an open-market purchase with a
\* missing price or share count, and that meets no store failure, completes
\* without raising and persists the flags of the other rows of the batch
\* (here: the CEO/CFO flag of every complete purchase of a chief officer).
C11_MissingDataNeverAborts ==
    (/\ lastOp.kind = "detect" /\ ~lastOp.storeFails
     /\ \E r \in BatchRows(lastOp.batch) :
            IsOpenMarketBuy(r) /\ (r.price = None \/ r.shares = None)) =>
        /\ ~lastOp.raised
        /\ \A r \in BatchRows(lastOp.batch) :
               (/\ IsOpenMarketBuy(r) /\ TitleIsCeoCfo(r.officer_title)
                /\ r.price # None /\ r.shares # None) =>
                   _already_flagged(flags, r.accession_no, FlagType.CEO_CFO_PURCHASE)

----------------------------------------------------------------------------
(* Properties of the individual detectors *)

\* The flag records a step appends to the flags table.
NewFlags == {flags'[i] : i \in (Len(flags) + 1)..Len(flags')}

\* A step that is one detect_and_save_flags call.
DetectStep == runs' = runs + 1 /\ lastOp'.kind = "detect"

\* The dated non-derivative purchases of a ticker in the batch of the call.
BatchBuys(ids, ticker) ==
    {r \in BatchRows(ids) :
        IsOpenMarketBuy(r) /\ r.transaction_date # None /\ r.ticker = ticker}

\* The purchases of the batch in the 7 calendar days starting at anchor b.
WindowOf(ids, b) ==
    {c \in BatchBuys(ids, b.ticker) :
        /\ Val(b.transaction_date) <= Val(c.transaction_date)
        /\ Val(c.transaction_date) <= Val(b.transaction_date) + 7}

\* The window starting at b holds purchases of at least 3 distinct insiders.
QualifyingAnchor(ids, b) ==
    Cardinality({c.insider_name : c \in WindowOf(ids, b)}) >= 3

\* C12: a detection run emits at most one CLUSTER_BUY flag per ticker, and
\* the flag is anchored at the chronologically earliest purchase of the batch
\* whose 7-day window holds 3 distinct insiders, never at a later window.
C12_FirstWindowOnly ==
    [][DetectStep =>
        LET cl == {g \in NewFlags : g.flag_type = FlagType.CLUSTER_BUY}
        IN  /\ \A g, h \in cl : g.ticker = h.ticker => g = h
            /\ \A g \in cl :
                   \A b \in BatchBuys(lastOp'.batch, g.ticker) :
                       QualifyingAnchor(lastOp'.batch, b) =>
                           Val(filings[g.trigger].transaction_date)
                               <= Val(b.transaction_date)]_vars

\* C13: every CLUSTER_BUY flag a run emits has an anchor purchase in the
\* batch whose 7-day window holds purchases by at least 3 distinct insiders
\* of the ticker; the flag names only insiders with a purchase in that window,
\* has severity HIGH and carries the smallest accession number among the
\* purchases in the window.
C13_ClusterFlagContent ==
    [][DetectStep =>
        \A g \in {h \in NewFlags : h.flag_type = FlagType.CLUSTER_BUY} :
            \E b \in BatchBuys(lastOp'.batch, g.ticker) :
                /\ QualifyingAnchor(lastOp'.batch, b)
                /\ \A k \in DOMAIN g.insider_name :
                       \E c \in WindowOf(lastOp'.batch, b) :
                           c.insider_name = g.insider_name[k]
                /\ g.severity = "HIGH"
                /\ g.accession_no =
                       Min({c.accession_no : c \in WindowOf(lastOp'.batch, b)})]_vars

\* The step appends a flag of the type for the batch row f.
EmitsFor(f, flag_type) ==
    \E g \in NewFlags : g.flag_type = flag_type /\ g.trigger = f.id

\* The rows of a completed detection run that are non-derivative open-market
\* purchases of a filing carrying no flag of the type before the run.
NewPurchases(flag_type) ==
    {f \in BatchRows(lastOp'.batch) :
        /\ IsOpenMarketBuy(f)
        /\ ~_already_flagged(flags, f.accession_no, flag_type)}

\* C14: a completed run emits a FIRST_PURCHASE flag, of severity MEDIUM, for
\* a new non-derivative open-market purchase exactly when the store holds no
\* other purchase row of the same insider and ticker, the triggering row
\* being the only row left out of the check.
C14_FirstPurchaseExactly ==
    [][(DetectStep /\ ~lastOp'.raised) =>
        \A f \in NewPurchases(FlagType.FIRST_PURCHASE) :
            /\ EmitsFor(f, FlagType.FIRST_PURCHASE)
                   <=> ~\E r \in Range(filings) :
                           /\ r.id # f.id
                           /\ r.ticker = f.ticker
                           /\ r.insider_name = f.insider_name
                           /\ r.transaction_code = "P"
            /\ \A g \in NewFlags :
                   (g.flag_type = FlagType.FIRST_PURCHASE /\ g.trigger = f.id)
                       => g.severity = "MEDIUM"]_vars

\* C15: the flag table never holds a flag of the deprecated type
\* REVERSAL_BUY: detect_and_save_flags does not run the legacy reversal
\* detector.
C15_NoLegacyReversalFlag ==
    \A i \in DOMAIN flags : flags[i].flag_type # FlagType.REVERSAL_BUY

\* What the detectors emit for a batch on the current flags table.
EmittedFor(ids) ==
    AllDetectors(SelectSeq(filings, LAMBDA r : r.id \in ids), flags)

\* C16: detect_and_save_flags persists a batch's flags atomically: a run that
\* raises, in a detector or in the store, leaves the flags table as it was
\* and returns nothing; a run that completes appends every emitted flag, in
\* order, and returns the number of records it added.
C16_AtomicBatch ==
    [][DetectStep =>
        LET old == Len(flags)
            em  == EmittedFor(lastOp'.batch).flags
        IN  /\ lastOp'.raised =>
                   /\ flags' = flags
                   /\ lastOp'.returned = None
            /\ ~lastOp'.raised =>
                   /\ Len(flags') >= old
                   /\ SubSeq(flags', 1, old) = flags
                   /\ lastOp'.returned = Some(Len(flags') - old)
                   /\ Len(flags') - old = Len(em)
                   /\ \A k \in DOMAIN em :
                          /\ flags'[old + k].accession_no = em[k].accession_no
                          /\ flags'[old + k].flag_type = em[k].flag_type
                          /\ flags'[old + k].trigger = em[k].trigger]_vars

\* The store raised on commit after the detectors had emitted flags for the
\* batch, and the table holds none of them.
C16_Witness ==
    /\ lastOp.kind = "detect" /\ lastOp.raised /\ lastOp.storeFails
    /\ ~EmittedFor(lastOp.batch).raised
    /\ EmittedFor(lastOp.batch).flags # <<>>
    /\ flags = <<>>

----------------------------------------------------------------------------
(* The flags table under detection, analytics refreshes and dismissals *)

\* A purchase of the chief executive and one of another insider the day
\* after.
FlagStoreCatalogue ==
    <<Proto("NVDA", "Adams", 91, BuyOn(10, "CEO")),
      Proto("NVDA", "Clark", 93, BuyOn(11, NULL))>>

\* A person dismisses the i-th flag: the only writer of is_dismissed; no code
\* of the core assigns the column.
dismiss_flag(i) ==
    /\ i \in DOMAIN flags
    /\ ~flags[i].is_dismissed
    /\ flags' = [flags EXCEPT ![i].is_dismissed = TRUE]
    /\ lastOp' = [kind |-> "dismiss", flag |-> i]
    /\ UNCHANGED <<filings, prices, analytics, clock, runs, ingest_runs, pipeline>>

InitFlagStore ==
    /\ filings \in StoresOf(FlagStoreCatalogue)
    /\ prices = PriceSeries
    /\ flags = <<>>
    /\ analytics = <<>>
    /\ clock = 0
    /\ runs = 0
    /\ ingest_runs = <<>>
    /\ pipeline = [pc |-> "idle", utc |-> 0]
    /\ lastOp = [kind |-> "init"]

NextFlagStore ==
    \/ Tick
    \/ \E ids \in SUBSET {r.id : r \in Range(filings)}, storeFails \in BOOLEAN :
           detect_and_save_flags(ids, storeFails)
    \/ \E t \in Range(COMPANIES), failAt \in 0..(Len(filings) + 1) :
           refresh_analytics_for_ticker(t, failAt)
    \/ \E i \in DOMAIN flags : dismiss_flag(i)

SpecFlagStore == InitFlagStore /\ [][NextFlagStore]_vars

\* A step in which a person dismisses a flag.
DismissStep == lastOp'.kind = "dismiss" /\ flags' # flags

\* C17: flag records are append-only for the core: a detect_and_save_flags
\* run or a refresh_analytics_for_ticker run (every step that is not a
\* dismissal by a person) leaves every flag already in the table in place
\* with every field, is_dismissed included, as it was.
C17_AppendOnly ==
    [][~DismissStep =>
        /\ Len(flags') >= Len(flags)
        /\ SubSeq(flags', 1, Len(flags)) = flags]_vars

\* A detection run appended flags behind a dismissed flag, which is still
\* dismissed.
C17_Witness ==
    /\ lastOp.kind = "detect" /\ lastOp.added > 0
    /\ Len(flags) > lastOp.added
    /\ \E i \in 1..(Len(flags) - lastOp.added) : flags[i].is_dismissed

----------------------------------------------------------------------------
(* Detection runs that fail part-way *)

\* Stores with a complete purchase next to purchases that make a detector
\* raise.
InitAtomic ==
    /\ filings \in StoresOf(MissingDataCatalogue)
    /\ prices = PriceSeries
    /\ flags = <<>>
    /\ analytics = <<>>
    /\ clock = 0
    /\ runs = 0
    /\ ingest_runs = <<>>
    /\ pipeline = [pc |-> "idle", utc |-> 0]
    /\ lastOp = [kind |-> "init"]

SpecAtomic == InitAtomic /\ [][NextDetect]_vars

----------------------------------------------------------------------------
(* An insider who sold for a long time and then buys *)

\* A Form-4 open-market sale on the given day.
SellOn(day) == [ShapeSell EXCEPT !.tdate = Some(day), !.fdate = Some(day + 2)]

\* A Form-4 open-market purchase on the given day that reports no balance.
PlainBuyOn(day) == [BuyOn(day, NULL) EXCEPT !.rem = None]

\* One insider: an early purchase, three sales, a purchase soon after them
\* and a purchase more than a year after the first sale.
BullReversalCatalogue ==
    <<Proto("NVDA", "Adams", 101, PlainBuyOn(5)),
      Proto("NVDA", "Adams", 102, SellOn(10)),
      Proto("NVDA", "Adams", 103, SellOn(20)),
      Proto("NVDA", "Adams", 104, SellOn(30)),
      Proto("NVDA", "Adams", 105, PlainBuyOn(40)),
      Proto("NVDA", "Adams", 106, PlainBuyOn(400))>>

\* No price history is loaded.
InitBullReversal ==
    /\ filings \in StoresOf(BullReversalCatalogue)
    /\ prices = {}
    /\ flags = <<>>
    /\ analytics = <<>>
    /\ clock = 0
    /\ runs = 0
    /\ ingest_runs = <<>>
    /\ pipeline = [pc |-> "idle", utc |-> 0]
    /\ lastOp = [kind |-> "init"]

SpecBullReversal == InitBullReversal /\ [][NextDetect]_vars

\* The insider's dated non-derivative purchase-or-sale rows of the ticker
\* dated strictly before the purchase f.
PriorRows(f) ==
    {r \in Range(filings) :
        /\ r.ticker = f.ticker
        /\ r.insider_name = f.insider_name
        /\ r.transaction_code \in {"P", "S"}
        /\ ~r.is_derivative
        /\ r.transaction_date # None
        /\ Val(r.transaction_date) < Val(f.transaction_date)}

\* The sells among the prior rows that no prior purchase follows or shares
\* a date with: the run of sells counted backward from the most recent row.
TrailingSells(f) ==
    {r \in PriorRows(f) :
        /\ r.transaction_code = "S"
        /\ \A q \in PriorRows(f) :
               q.transaction_code = "P" =>
                   Val(q.transaction_date) < Val(r.transaction_date)}

\* Condition (a): at least 3 consecutive sells right before the purchase.
SustainedSelling(f) == Cardinality(TrailingSells(f)) >= 3

\* Condition (b): only sells before the purchase, the oldest at least 365
\* days before it.
YearOfSelling(f) ==
    /\ \A r \in PriorRows(f) : r.transaction_code = "S"
    /\ \E r \in PriorRows(f) :
           Val(f.transaction_date) - Val(r.transaction_date) >= 365

\* C18: a completed run emits a BULL_REVERSAL flag, of severity HIGH, for a
\* new dated non-derivative purchase exactly when, among the insider's earlier
\* purchase-or-sale rows of the ticker, (a) the run of sells right before the
\* purchase has length at least 3 or (b) there is no prior purchase and the
\* oldest prior sell is at least 365 days before it; nothing is emitted when
\* the most recent prior row is a purchase or no prior row exists, and the
\* description is the one of condition (a) whenever (a) holds.
C18_BullReversalExactly ==
    [][(DetectStep /\ ~lastOp'.raised) =>
        \A f \in NewPurchases(FlagType.BULL_REVERSAL) :
            f.transaction_date # None =>
                /\ EmitsFor(f, FlagType.BULL_REVERSAL)
                       <=> (SustainedSelling(f) \/ YearOfSelling(f))
                /\ (PriorRows(f) = {} \/ (TrailingSells(f) = {} /\ ~YearOfSelling(f)))
                       => ~EmitsFor(f, FlagType.BULL_REVERSAL)
                /\ \A g \in NewFlags :
                       (g.flag_type = FlagType.BULL_REVERSAL /\ g.trigger = f.id) =>
                           /\ g.severity = "HIGH"
                           /\ g.accession_no = f.accession_no
                           /\ g.desc = (IF SustainedSelling(f)
                                        THEN "consecutive transactions"
                                        ELSE "exclusively selling")]_vars

\* A completed run flagged a purchase for which both conditions hold, with
\* the description of condition (a).
C18_Witness ==
    /\ lastOp.kind = "detect" /\ ~lastOp.raised
    /\ \E i \in DOMAIN flags :
           /\ flags[i].flag_type = FlagType.BULL_REVERSAL
           /\ SustainedSelling(filings[flags[i].trigger])
           /\ YearOfSelling(filings[flags[i].trigger])
           /\ flags[i].desc = "consecutive transactions"

----------------------------------------------------------------------------
(* Purchases that enlarge a position by a tenth, a quarter, or less *)

\* A Form-4 open-market purchase of 100 shares on the given day that leaves
\* the given balance.
BuyLeaving(day, balance) == [BuyOn(day, NULL) EXCEPT !.rem = Some(balance)]

\* Purchases of 100 shares on prior balances of 1000, 1001, 400 and 0, more
\* than a week apart.
ConvictionCatalogue ==
    <<Proto("NVDA", "Adams", 111, BuyLeaving(10, 1100)),
      Proto("NVDA", "Baker", 112, BuyLeaving(20, 1101)),
      Proto("NVDA", "Clark", 113, BuyLeaving(30, 500)),
      Proto("NVDA", "Evans", 115, BuyLeaving(50, 100))>>

InitConviction ==
    /\ filings \in StoresOf(ConvictionCatalogue)
    /\ prices = {}
    /\ flags = <<>>
    /\ analytics = <<>>
    /\ clock = 0
    /\ runs = 0
    /\ ingest_runs = <<>>
    /\ pipeline = [pc |-> "idle", utc |-> 0]
    /\ lastOp = [kind |-> "init"]

SpecConviction == InitConviction /\ [][NextDetect]_vars

\* prior_balance = shares_remaining - shares, where both are reported.
PriorBalance(f) == Val(f.shares_remaining) - Val(f.shares)

\* prior_balance is strictly positive and shares / prior_balance >= num / den.
IncreaseAtLeast(f, num, den) ==
    /\ f.shares # None /\ f.shares_remaining # None
    /\ PriorBalance(f) > 0
    /\ den * Val(f.shares) >= num * PriorBalance(f)

\* C19: a completed run emits a CONVICTION_BUY flag for a new non-derivative
\* purchase exactly when prior_balance = shares_remaining - shares is strictly
\* positive and shares / prior_balance >= 0.10, with severity HIGH when the
\* ratio is >= 0.25 and MEDIUM otherwise; 100 shares bought to a balance of
\* 1100 flag MEDIUM, and a purchase with prior_balance <= 0 never flags.
C19_ConvictionExactly ==
    [][(DetectStep /\ ~lastOp'.raised) =>
        \A f \in NewPurchases(FlagType.CONVICTION_BUY) :
            /\ EmitsFor(f, FlagType.CONVICTION_BUY) <=> IncreaseAtLeast(f, 1, 10)
            /\ \A g \in NewFlags :
                   (g.flag_type = FlagType.CONVICTION_BUY /\ g.trigger = f.id) =>
                       g.severity = (IF IncreaseAtLeast(f, 1, 4) THEN "HIGH"
                                     ELSE "MEDIUM")
            /\ (f.shares = Some(100) /\ f.shares_remaining = Some(1100)) =>
                   \E g \in NewFlags :
                       /\ g.flag_type = FlagType.CONVICTION_BUY
                       /\ g.trigger = f.id
                       /\ g.severity = "MEDIUM"
            /\ (f.shares # None /\ f.shares_remaining # None /\ PriorBalance(f) <= 0)
                   => ~EmitsFor(f, FlagType.CONVICTION_BUY)]_vars

\* One completed run over purchases at exactly 10%, just under 10%, exactly
\* 25% and on a prior balance of 0: a MEDIUM flag for the first, a HIGH flag
\* for the third, none for the other two.
C19_Witness ==
    /\ lastOp.kind = "detect" /\ ~lastOp.raised
    /\ \A r \in Range(filings) : r.id \in lastOp.batch
    /\ {r.accession_no : r \in Range(filings)} = {111, 112, 113, 115}
    /\ \A acc \in {111, 112, 113, 115} :
           LET hit == {i \in DOMAIN flags :
                          /\ flags[i].flag_type = FlagType.CONVICTION_BUY
                          /\ flags[i].accession_no = acc}
           IN  /\ acc \in {112, 115} => hit = {}
               /\ acc = 111 => \E i \in hit : flags[i].severity = "MEDIUM"
               /\ acc = 113 => \E i \in hit : flags[i].severity = "HIGH"

----------------------------------------------------------------------------
(* Purchases into a falling price *)

\* A Form-4 open-market purchase on the given day at the given price, or at
\* no reported price, that reports no balance.
BuyAt(day, price) == [PlainBuyOn(day) EXCEPT !.px = price]

\* NVDA closed at 100 a year and a month before day 400 and at 80 on it;
\* AAPL closed at 200 a year and at 100 a month before.
DipSeries ==
    {[ticker |-> "NVDA", date |-> 30, close |-> 100],
     [ticker |-> "NVDA", date |-> 370, close |-> 100],
     [ticker |-> "NVDA", date |-> 400, close |-> 80],
     [ticker |-> "AAPL", date |-> 30, close |-> 200],
     [ticker |-> "AAPL", date |-> 370, close |-> 100]}

\* Purchases on day 400 at 80, 79 and 90 and at no reported price, a purchase
\* of the other ticker at 100, and a purchase older than every close.
DipCatalogue ==
    <<Proto("NVDA", "Adams", 121, BuyAt(400, Some(80))),
      Proto("NVDA", "Adams", 122, BuyAt(400, Some(79))),
      Proto("NVDA", "Adams", 123, BuyAt(400, Some(90))),
      Proto("NVDA", "Adams", 124, BuyAt(400, None)),
      Proto("AAPL", "Adams", 125, BuyAt(400, Some(100))),
      Proto("NVDA", "Adams", 126, BuyAt(20, Some(1)))>>

InitDip ==
    /\ filings \in StoresOf(DipCatalogue)
    /\ prices = DipSeries
    /\ flags = <<>>
    /\ analytics = <<>>
    /\ clock = 0
    /\ runs = 0
    /\ ingest_runs = <<>>
    /\ pipeline = [pc |-> "idle", utc |-> 0]
    /\ lastOp = [kind |-> "init"]

SpecDip == InitDip /\ [][NextDetect]_vars

\* The price of a purchase: the transaction price or, if absent, the first
\* close on or after the transaction date; None if neither exists.
PurchasePrice(f) ==
    IF f.price # None THEN ToRat(f.price)
    ELSE get_price_on_or_after(f.ticker, Val(f.transaction_date))

\* The purchase price is at most percent % of the latest close dated on or
\* before `days` days before the purchase.
AtMostPercentOf(f, percent, days) ==
    LET ref == CloseOnOrBefore(f.ticker, Val(f.transaction_date) - days)
        p   == PurchasePrice(f)
    IN  /\ p # None
        /\ ref # None
        /\ 100 * p[1] <= percent * Val(ref) * p[2]

\* C20: a completed run emits a DIP_BUY flag, of severity HIGH, for a new
\* dated non-derivative purchase exactly when its price is at most 50% of the
\* latest close dated on or before 365 days earlier or at most 80% of the
\* latest close dated on or before 30 days earlier; a purchase with no
\* resolvable price or with neither reference close never flags.
C20_DipBuyExactly ==
    [][(DetectStep /\ ~lastOp'.raised) =>
        \A f \in NewPurchases(FlagType.DIP_BUY) :
            f.transaction_date # None =>
                /\ EmitsFor(f, FlagType.DIP_BUY)
                       <=> (AtMostPercentOf(f, 50, 365) \/ AtMostPercentOf(f, 80, 30))
                /\ \A g \in NewFlags :
                       (g.flag_type = FlagType.DIP_BUY /\ g.trigger = f.id)
                           => g.severity = "HIGH"]_vars

----------------------------------------------------------------------------
(* Purchases around the two dollar thresholds *)

\* A Form-4 open-market purchase of the given number of shares at 10 on the
\* given day that reports no balance.
BuyShares(day, shares) == [PlainBuyOn(day) EXCEPT !.sh = Some(shares)]

\* Purchases worth 500,000, 499,990, 2,000,000 and 1,999,990, more than a
\* week apart.
LargeCatalogue ==
    <<Proto("NVDA", "Adams", 131, BuyShares(10, 50000)),
      Proto("NVDA", "Baker", 132, BuyShares(20, 49999)),
      Proto("NVDA", "Clark", 133, BuyShares(30, 200000)),
      Proto("NVDA", "Davis", 134, BuyShares(40, 199999))>>

InitLarge ==
    /\ filings \in StoresOf(LargeCatalogue)
    /\ prices = {}
    /\ flags = <<>>
    /\ analytics = <<>>
    /\ clock = 0
    /\ runs = 0
    /\ ingest_runs = <<>>
    /\ pipeline = [pc |-> "idle", utc |-> 0]
    /\ lastOp = [kind |-> "init"]

SpecLarge == InitLarge /\ [][NextDetect]_vars

\* The dollar value of the row is present and at least the amount.
WorthAtLeast(f, amount) == f.value # None /\ Val(f.value) >= amount

----------------------------------------------------------------------------
(* Cost basis, unrealized and realized return *)

\* One insider with purchases at 10 and 20, a purchase at no reported price
\* and a sale; a second insider with a purchase at a price of 0 and a sale;
\* a purchase of the ticker that has no price history.
CostBasisCatalogue ==
    <<Proto("NVDA", "Adams", 141, BuyAt(10, Some(10))),
      Proto("NVDA", "Adams", 142, BuyAt(11, Some(20))),
      Proto("NVDA", "Adams", 143, BuyAt(12, None)),
      Proto("NVDA", "Adams", 144, SellOn(20)),
      Proto("NVDA", "Baker", 145, BuyAt(10, Some(0))),
      Proto("NVDA", "Baker", 146, SellOn(20)),
      Proto("AAPL", "Adams", 147, BuyAt(10, Some(10)))>>

InitCostBasis ==
    /\ filings \in StoresOf(CostBasisCatalogue)
    /\ prices = PriceSeries
    /\ flags = <<>>
    /\ analytics = <<>>
    /\ clock = 0
    /\ runs = 0
    /\ ingest_runs = <<>>
    /\ pipeline = [pc |-> "idle", utc |-> 0]
    /\ lastOp = [kind |-> "init"]

SpecCostBasis == InitCostBasis /\ [][NextAnalytics]_vars

\* The non-derivative rows of the record's insider with the given code.
OpenMarketRows(a, code) ==
    {r \in Range(filings) :
        /\ r.ticker = a.ticker
        /\ r.insider_name = a.insider_name
        /\ ~r.is_derivative
        /\ r.transaction_code = code}

\* The rows among S that report both a share count and a price.
Priced(S) == {r \in S : r.shares # None /\ r.price # None}

\* Sum of the share counts of the rows of S that report one.
RECURSIVE SharesOf(_)
SharesOf(S) ==
    IF S = {} THEN 0
    ELSE LET r == CHOOSE x \in S : TRUE
         IN  (IF r.shares # None THEN Val(r.shares) ELSE 0) + SharesOf(S \ {r})

\* Sum of shares * price over the rows of S, all priced.
RECURSIVE CostOf(_)
CostOf(S) ==
    IF S = {} THEN 0
    ELSE LET r == CHOOSE x \in S : TRUE
         IN  Val(r.shares) * Val(r.price) + CostOf(S \ {r})

\* sum(shares * price) / sum(shares) over the priced rows of S, if defined.
CostBasisOf(S) ==
    IF Priced(S) = {} \/ SharesOf(Priced(S)) = 0 THEN None
    ELSE Rat(CostOf(Priced(S)), SharesOf(Priced(S)))

\* The summed share count of S, or None if no row reports one.
TotalSharesOf(S) ==
    IF {r \in S : r.shares # None} = {} THEN None ELSE RInt(SharesOf(S))

\* C22: in every analytics record the weighted-average cost basis is
\* sum(shares * price) / sum(shares) over the insider's non-derivative
\* purchase rows having both values; when cost basis, current price and total
\* purchased shares are all present, unrealized % is
\* percent_change(cost basis, current price) and unrealized $ is
\* (current price - cost basis) * total purchased shares; otherwise both
\* unrealized fields are no value.
C22_CostBasisAndUnrealized ==
    \A i \in DOMAIN analytics :
        LET a     == analytics[i]
            basis == CostBasisOf(OpenMarketRows(a, "P"))
            cur   == get_latest_price(a.ticker)
            total == TotalSharesOf(OpenMarketRows(a, "P"))
        IN  /\ a.open_mkt_wacb = basis
            /\ IF basis # None /\ cur # None /\ total # None
               THEN /\ a.open_mkt_unrealized_pct = _price_pct(basis, cur)
                    /\ a.open_mkt_unrealized_usd = RMul(RSub(cur, basis), total)
               ELSE /\ a.open_mkt_unrealized_pct = None
                    /\ a.open_mkt_unrealized_usd = None

----------------------------------------------------------------------------
(* The weighted average on its own *)

\* Share counts and prices of a column: missing, zero, positive; a negative
\* share count, so that a non-empty column can sum to zero.
ShareInputs == {None, Some(-1), Some(0), Some(1), Some(2)}

PriceInputs == {None, Some(0), Some(1), Some(3)}

\* Parallel columns of the same length, as taken from one frame.
InitWacb ==
    /\ filings = <<>>
    /\ prices = {}
    /\ flags = <<>>
    /\ analytics = <<>>
    /\ clock = 0
    /\ runs = 0
    /\ ingest_runs = <<>>
    /\ pipeline = [pc |-> "idle", utc |-> 0]
    /\ \E n \in 0..MaxTrades :
           lastOp \in [kind : {"wacb_args"}, shares : [1..n -> ShareInputs],
                       prices : [1..n -> PriceInputs]]

NextWacb == wacb_call

SpecWacb == InitWacb /\ [][NextWacb]_vars

\* The positions of the call at which both columns have a value.
BothPresent == {i \in DOMAIN lastOp.shares :
                   lastOp.shares[i] # None /\ lastOp.prices[i] # None}

\* Sum of the share counts at the positions in idx.
RECURSIVE MaskedShares(_)
MaskedShares(idx) ==
    IF idx = {} THEN 0
    ELSE LET i == CHOOSE k \in idx : TRUE
         IN  Val(lastOp.shares[i]) + MaskedShares(idx \ {i})

\* Sum of shares * price at the positions in idx.
RECURSIVE MaskedCost(_)
MaskedCost(idx) ==
    IF idx = {} THEN 0
    ELSE LET i == CHOOSE k \in idx : TRUE
         IN  Val(lastOp.shares[i]) * Val(lastOp.prices[i]) + MaskedCost(idx \ {i})

\* C23: _wacb uses only the positions where both values are present; it
\* returns no value when there is none or their share sum is exactly zero,
\* and sum(shares * price) / sum(shares) over them otherwise.
C23_WeightedAverage ==
    lastOp.kind = "wacb" =>
        IF BothPresent = {} \/ MaskedShares(BothPresent) = 0
        THEN lastOp.result = None
        ELSE /\ lastOp.result # None
             /\ lastOp.result[2] > 0
             /\ lastOp.result[1] * MaskedShares(BothPresent)
                    = lastOp.result[2] * MaskedCost(BothPresent)

\* A call on columns with a priced position and a position whose price is
\* missing returned the average of the priced position alone.
C23_Witness ==
    /\ lastOp.kind = "wacb"
    /\ lastOp.shares = <<Some(2), Some(1)>>
    /\ lastOp.prices = <<Some(3), None>>
    /\ lastOp.result = RInt(3)

----------------------------------------------------------------------------
(* Derivative rows and the analytics of an insider *)

\* A derivative transaction reported like a sale, before every other row.
ShapeDerivativeSale ==
    [ShapeSell EXCEPT !.tdate = Some(5), !.fdate = Some(7), !.rem = Some(50),
                      !.deriv = TRUE]

\* An insider with a purchase, a sale, an option exercise and a derivative
\* sale, and an insider with an option exercise only.
DerivativeCatalogue ==
    <<Proto("NVDA", "Adams", 151, ShapeBuy),
      Proto("NVDA", "Adams", 152, ShapeOption),
      Proto("NVDA", "Adams", 153, ShapeDerivativeSale),
      Proto("NVDA", "Adams", 154, ShapeSell),
      Proto("NVDA", "Baker", 155, ShapeOption)>>

InitDerivatives ==
    /\ filings \in StoresOf(DerivativeCatalogue)
    /\ prices = PriceSeries
    /\ flags = <<>>
    /\ analytics = <<>>
    /\ clock = 0
    /\ runs = 0
    /\ ingest_runs = <<>>
    /\ pipeline = [pc |-> "idle", utc |-> 0]
    /\ lastOp = [kind |-> "init"]

SpecDerivatives == InitDerivatives /\ [][NextAnalytics]_vars

\* The fields of an analytics record that describe cost basis and position.
PositionFields ==
    {"first_txn_date", "entry_price", "last_reported_shares",
     "current_position_value", "n_open_mkt_buys", "open_mkt_shares_bought",
     "open_mkt_total_cost", "open_mkt_wacb", "open_mkt_unrealized_pct",
     "open_mkt_unrealized_usd", "n_open_mkt_sells", "open_mkt_shares_sold",
     "open_mkt_total_proceeds", "open_mkt_avg_sell_price", "realized_pct",
     "shares_awarded", "award_current_value", "net_open_mkt_shares",
     "pct_trades_on_10b5_plan"}

\* The rows of the record's insider without the derivative rows.
CommonStockRows(a) ==
    SelectSeq(RowsOfInsider(a.ticker, a.insider_name), LAMBDA r : ~r.is_derivative)

\* The cost-basis and position fields of an insider with no row at all that
\* counts: nothing known, no trade.
NothingKnown(field) ==
    IF field \in {"n_open_mkt_buys", "n_open_mkt_sells"} THEN 0
    ELSE IF field \in {"net_open_mkt_shares", "pct_trades_on_10b5_plan"} THEN RInt(0)
    ELSE None

\* C24: derivative rows never influence cost-basis or position analytics:
\* every such field of every analytics record is what the insider's history
\* without its derivative rows gives (and "nothing known" when only
\* derivative rows exist).
C24_DerivativesIgnored ==
    \A i \in DOMAIN analytics :
        LET a  == analytics[i]
            nd == CommonStockRows(a)
        IN  \A field \in PositionFields :
                a[field] = IF nd = <<>> THEN NothingKnown(field)
                           ELSE _compute_for_insider(a.ticker, a.insider_name, nd)[field]

\* A record of an insider whose history holds both derivative rows next to
\* a purchase and a sale: one sale is counted, the first transaction date is
\* the purchase's and the reported shares are those of the purchase.
C24_Witness ==
    \E i \in DOMAIN analytics :
        /\ Len(RowsOfInsider(analytics[i].ticker, analytics[i].insider_name)) = 4
        /\ analytics[i].first_txn_date = Some(10)
        /\ analytics[i].last_reported_shares = RInt(600)
        /\ analytics[i].n_open_mkt_buys = 1
        /\ analytics[i].n_open_mkt_sells = 1

----------------------------------------------------------------------------
(* Realized return and net open-market shares *)

\* The summed share count of S with a missing sum counted as zero.
SharesOrZero(S) == IF TotalSharesOf(S) = None THEN RInt(0) ELSE TotalSharesOf(S)

----------------------------------------------------------------------------
(* Price lookups and the forward-return windows *)

\* Insiders whose first transaction falls on a trading day, between two
\* trading days, two weeks before the last close, and after the last close;
\* and an insider of the ticker that has no price history.
WindowCatalogue ==
    <<Proto("NVDA", "Adams", 161, BuyOn(10, NULL)),
      Proto("NVDA", "Baker", 162, BuyOn(15, NULL)),
      Proto("NVDA", "Clark", 163, SellOn(27)),
      Proto("NVDA", "Davis", 164, BuyOn(45, NULL)),
      Proto("AAPL", "Adams", 165, BuyOn(10, NULL))>>

InitWindows ==
    /\ filings \in StoresOf(WindowCatalogue)
    /\ prices = PriceSeries
    /\ flags = <<>>
    /\ analytics = <<>>
    /\ clock = 0
    /\ runs = 0
    /\ ingest_runs = <<>>
    /\ pipeline = [pc |-> "idle", utc |-> 0]
    /\ lastOp = [kind |-> "init"]

SpecWindows == InitWindows /\ [][NextAnalytics]_vars

\* The price points of the ticker dated on or after the day.
PointsFrom(ticker, day) == {p \in prices : p.ticker = ticker /\ p.date >= day}

\* The day lies past the last stored price date of the ticker.
PastLastPrice(ticker, day) == \A p \in prices : p.ticker = ticker => p.date < day

\* The close of the earliest price point of the ticker on or after the day:
\* no point of the ticker lies between the day and the point it belongs to.
IsNextClose(ticker, day, close) ==
    \E p \in PointsFrom(ticker, day) :
        /\ close = RInt(p.close)
        /\ \A q \in PointsFrom(ticker, day) : p.date <= q.date

\* The forward-return fields of a record and their day offsets.
WindowFields == {"pct_2w", "pct_1m", "pct_3m", "pct_6m", "pct_1y", "pct_2y", "pct_3y"}

WindowOffset(field) ==
    CASE field = "pct_2w" -> RETURN_WINDOWS.w2
      [] field = "pct_1m" -> RETURN_WINDOWS.m1
      [] field = "pct_3m" -> RETURN_WINDOWS.m3
      [] field = "pct_6m" -> RETURN_WINDOWS.m6
      [] field = "pct_1y" -> RETURN_WINDOWS.y1
      [] field = "pct_2y" -> RETURN_WINDOWS.y2
      [] field = "pct_3y" -> RETURN_WINDOWS.y3

\* Days a lookup is made for in the scenario.
LookupDays == 0..50

\* C26: get_price_on_or_after returns the close of the earliest stored price
\* point of the ticker dated on or after the day (the next trading day's close
\* for a non-trading day) and no value only when the ticker has no such point;
\* the entry price of every analytics record is that lookup at the first
\* transaction date, and each forward-return window of a record is no value
\* exactly when first_txn_date + offset lies past the last stored price date.
C26_NextTradingDayClose ==
    /\ \A t \in Range(COMPANIES), d \in LookupDays :
           IF PastLastPrice(t, d) THEN get_price_on_or_after(t, d) = None
           ELSE IsNextClose(t, d, get_price_on_or_after(t, d))
    /\ \A i \in DOMAIN analytics :
           LET a == analytics[i]
           IN  a.first_txn_date # None =>
                   /\ IF PastLastPrice(a.ticker, Val(a.first_txn_date))
                      THEN a.entry_price = None
                      ELSE IsNextClose(a.ticker, Val(a.first_txn_date), a.entry_price)
                   /\ \A field \in WindowFields :
                          a[field] = None
                              <=> PastLastPrice(a.ticker,
                                      Val(a.first_txn_date) + WindowOffset(field))

\* A record whose first transaction fell between two trading days: the
\* entry price is the next trading day's close, the two-week window resolves
\* to the last close and the one-month window is not reached yet.
C26_Witness ==
    \E i \in DOMAIN analytics :
        /\ analytics[i].first_txn_date = Some(15)
        /\ analytics[i].entry_price = RInt(20)
        /\ analytics[i].pct_2w = RInt(50)
        /\ analytics[i].pct_1m = None

----------------------------------------------------------------------------
(* The ingest pipeline: run log, ingest window, Section-16 upsert *)

\* Pipeline runs and backfills are started one after the other: one
\* scheduled job and one operator, and no run is started while another is
\* in progress.

\* Number of clock readings after which no run or backfill is started.
MaxReadings == 4

\* Number of runs in which every stage may fail.
MaxStageRuns == 1

\* Number of runs made when the ingest window is followed from run to run.
MaxWindowRuns == 3

\* Filings at EDGAR in the order get_filings lists them. lines are the
\* transaction lines the parser returns. before is the number of filings
\* listed just ahead of the filing, on the same day, whose document cannot
\* be parsed (fetchers.py lines 207-213): they add no row, and none of
\* them is a 50th of its listing. The Form-4 listing of NVDA is long enough
\* for the commit made after every 50th filing.
EdgarFilings ==
    <<[accession_no |-> 201, ticker |-> "NVDA", form |-> "4", filing_date |-> 97,
       before |-> 49,
       lines |-> <<[name |-> "Adams", shape |-> BuyOn(95, "CEO")],
                   [name |-> "Adams", shape |-> BuyOn(96, "CEO")]>>],
      [accession_no |-> 202, ticker |-> "NVDA", form |-> "4", filing_date |-> 97,
       before |-> 0,
       lines |-> <<[name |-> "Baker", shape |-> SellOn(95)]>>],
      [accession_no |-> 205, ticker |-> "AAPL", form |-> "4", filing_date |-> 101,
       before |-> 1,
       lines |-> <<[name |-> "Clark", shape |-> BuyOn(100, "CFO")]>>]>>

\* A mutation of UtcNow: every reading gives the same instant.
UtcNowStopped == [date |-> Today, seq |-> 0]

\* datetime.utcnow(): the date of the day and the number of the reading;
\* a later reading is a later instant.
UtcNow == [date |-> Today, seq |-> pipeline.utc + 1]

\* A mutation of _last_successful_run_date: the latest run counts whatever
\* its status.
LastRunDate(session) ==
    LET last == CHOOSE i \in DOMAIN session :
                    \A j \in DOMAIN session : session[j].run_at.seq <= session[i].run_at.seq
    IN  IF session # <<>> THEN session[last].run_at.date - 2 ELSE Today - 30

\* The start of the ingest window of a run without an explicit start date.
_last_successful_run_date(session) ==
    LET ok == {i \in DOMAIN session : session[i].status = "success"}
    IN  IF ok # {}
        THEN LET last == CHOOSE i \in ok :
                             \A j \in ok : session[j].run_at.seq <= session[i].run_at.seq
             IN  session[last].run_at.date - 2
        ELSE Today - 30

\* ec.get_filings(form, filing_date=date_range): the filings of one form
\* in the date range. i is the index of the filing in the listing, the
\* filings that cannot be parsed counted, and last marks the end of it.
Listing(ticker, form, start_date, end_date) ==
    LET l == SelectSeq(EdgarFilings,
                       LAMBDA f : /\ f.ticker = ticker
                                  /\ f.form = form
                                  /\ start_date <= f.filing_date
                                  /\ f.filing_date <= end_date)
    IN  [m \in DOMAIN l |->
            [filing |-> l[m],
             i |-> m - 1 + SumSeq([n \in 1..m |-> l[n].before]),
             last |-> m = Len(l)]]

\* The listings of the companies from the c-th watchlist entry on, one
\* after the other.
RECURSIVE WorklistFrom(_, _, _)
WorklistFrom(c, start_date, end_date) ==
    IF c > Len(COMPANIES) THEN <<>>
    ELSE Listing(COMPANIES[c], "3", start_date, end_date)
         \o Listing(COMPANIES[c], "4", start_date, end_date)
         \o Listing(COMPANIES[c], "5", start_date, end_date)
         \o WorklistFrom(c + 1, start_date, end_date)

\* A mutation of AlreadyStored: no filing is ever taken as stored.
NeverStored(session, accession_no) == FALSE

\* session.query(Section16Filing).filter_by(accession_no=accno).first():
\* whether the session sees a row of that accession number.
AlreadyStored(session, accession_no) ==
    \E r \in Range(session) : r.accession_no = accession_no

\* The loop of upsert_section16 from the k-th visited filing on. committed
\* is the table as of the last commit, pending the table as the session
\* sees it. failAt = k > 0 makes the k-th visit raise: on the query for the
\* accession number when failLine = 0, else after failLine of its rows
\* have been added (after all of them: on what follows the last add).
RECURSIVE UpsertFrom(_, _, _, _, _, _, _, _, _)
UpsertFrom(work, k, committed, pending, new_rows, now, by, failAt, failLine) ==
    IF k > Len(work)
    THEN [store |-> pending, raised |-> FALSE, new_rows |-> new_rows]
    ELSE LET filing == work[k].filing
             exists == AlreadyStored(pending, filing.accession_no)
             hit    == k = failAt /\ (failLine = 0 \/ ~exists)
             n      == IF exists THEN 0
                       ELSE IF hit THEN Min({failLine, Len(filing.lines)})
                       ELSE Len(filing.lines)
             rows   == [j \in 1..n |->
                           [created_at |-> now, by |-> by] @@
                           Section16Filing(Len(pending) + j, filing.accession_no,
                                           filing.ticker, Some(filing.filing_date),
                                           filing.lines[j].name,
                                           filing.lines[j].shape.title,
                                           filing.lines[j].shape.tdate,
                                           filing.lines[j].shape.code,
                                           filing.lines[j].shape.sh,
                                           filing.lines[j].shape.px,
                                           filing.lines[j].shape.rem,
                                           filing.lines[j].shape.deriv)]
             added  == pending \o rows
             commit == work[k].last \/ (~exists /\ work[k].i % 50 = 49)
         IN  IF hit
             THEN [store |-> SessionRollback(committed, added), raised |-> TRUE,
                   new_rows |-> new_rows + n]
             ELSE UpsertFrom(work, k + 1, IF commit THEN added ELSE committed, added,
                             new_rows + n, now, by, failAt, failLine)

\* upsert_section16 on the table `session`: the table it leaves, whether it
\* raised, and its count of added rows.
upsert_section16(session, start_date, end_date, now, by, failAt, failLine) ==
    UpsertFrom(WorklistFrom(1, start_date, end_date), 1, session, session, 0, now, by,
               failAt, failLine)

\* sync_prices on the price table: per ticker the closes after the latest
\* stored date, up to today.
sync_prices(session) ==
    session \cup
    {p \in PriceSeries :
        /\ p.date <= Today
        /\ \A q \in session : q.ticker = p.ticker => q.date < p.date}

\* The position "idle" of the pipeline process: no call is in progress.
\* errors is the list of run_pipeline, an entry "<stage>" standing for the
\* line "<stage>: <exception>"; trace is a ghost: the stages that have run
\* in this call and whether each raised.

\* A mutation of AfterStage: a stage that raises ends the run.
AfterStageAborting(stage, raised) ==
    IF raised THEN "finalise"
    ELSE CASE stage = "prices"    -> "section16"
           [] stage = "section16" -> "stakes"
           [] stage = "stakes"    -> "flags"
           [] stage = "flags"     -> "analytics"
           [] stage = "analytics" -> "finalise"

\* The next position of run_pipeline after a stage: every stage is in a
\* try block of its own, so the next one runs whether or not it raised.
AfterStage(stage, raised) ==
    CASE stage = "prices"    -> "section16"
      [] stage = "section16" -> "stakes"
      [] stage = "stakes"    -> "flags"
      [] stage = "flags"     -> "analytics"
      [] stage = "analytics" -> "finalise"

\* run_pipeline up to the first stage: the run record is committed as
\* "running", the window is fixed and the companies are seeded. seedFails:
\* the store raises while seeding, which ends the call.
run_pipeline(seedFails) ==
    /\ pipeline.pc = "idle"
    /\ LET now == UtcNow
           run == [id |-> Len(ingest_runs) + 1, run_at |-> now, status |-> "running",
                   errors |-> None, new_section16_rows |-> 0, flags_raised |-> 0,
                   analytics_refreshed |-> 0, batch |-> None]
       IN  /\ ingest_runs' = Append(ingest_runs, run)
           /\ pipeline' =
                IF seedFails THEN [pc |-> "idle", utc |-> now.seq]
                ELSE [pc |-> "prices", utc |-> now.seq, run_id |-> run.id,
                      run_start |-> now,
                      start_date |-> _last_successful_run_date(Append(ingest_runs, run)),
                      end_date |-> Today, errors |-> <<>>, new_s16 |-> 0,
                      flags_count |-> 0, analytics_count |-> 0, trace |-> <<>>]
           /\ lastOp' = [kind |-> "run_pipeline", raised |-> seedFails]
    /\ UNCHANGED <<filings, prices, flags, analytics, clock, runs>>

\* Stage 1: sync_prices. fails: the store raises on its first query.
stage_prices(fails) ==
    /\ pipeline.pc = "prices"
    /\ prices' = IF fails THEN prices ELSE sync_prices(prices)
    /\ pipeline' = [pipeline EXCEPT !.pc = AfterStage("prices", fails),
                                    !.errors = IF fails THEN Append(@, "prices") ELSE @,
                                    !.trace = Append(@, [stage |-> "prices", raised |-> fails])]
    /\ lastOp' = [kind |-> "prices", raised |-> fails]
    /\ UNCHANGED <<filings, flags, analytics, clock, runs, ingest_runs>>

\* Stage 2: upsert_section16 over the window of the run.
stage_section16(failAt, failLine) ==
    /\ pipeline.pc = "section16"
    /\ failAt = 0 => failLine = 0
    /\ failAt <= Len(WorklistFrom(1, pipeline.start_date, pipeline.end_date))
    /\ \E now \in {UtcNow} :
       \E r \in {upsert_section16(filings, pipeline.start_date, pipeline.end_date,
                                  now, pipeline.run_id, failAt, failLine)} :
        /\ filings' = r.store
        /\ pipeline' = [pipeline EXCEPT !.pc = AfterStage("section16", r.raised),
                                        !.utc = now.seq,
                                        !.errors = IF r.raised THEN Append(@, "section16") ELSE @,
                                        !.trace = Append(@, [stage |-> "section16",
                                                             raised |-> r.raised]),
                                        !.new_s16 = IF r.raised THEN 0 ELSE r.new_rows]
        /\ lastOp' = [kind |-> "section16", raised |-> r.raised]
    /\ UNCHANGED <<prices, flags, analytics, clock, runs, ingest_runs>>

\* Stage 3: upsert_large_holder_stakes; its table large_holder_stakes is
\* read by no other stage and is left out.
stage_stakes(fails) ==
    /\ pipeline.pc = "stakes"
    /\ pipeline' = [pipeline EXCEPT !.pc = AfterStage("stakes", fails),
                                    !.errors = IF fails THEN Append(@, "stakes") ELSE @,
                                    !.trace = Append(@, [stage |-> "stakes", raised |-> fails])]
    /\ lastOp' = [kind |-> "stakes", raised |-> fails]
    /\ UNCHANGED <<filings, prices, flags, analytics, clock, runs, ingest_runs>>

\* Stage 4: the rows created since the start of the run go to
\* detect_and_save_flags. storeFails: the store raises, on the query for
\* the new rows when there are none and inside the detection otherwise.
\* batch on the run record is a ghost: the ids handed to the detection.
stage_flags(storeFails) ==
    /\ pipeline.pc = "flags"
    /\ \E new_ids \in {{x.id : x \in {y \in Range(filings) :
                                         y.created_at.seq >= pipeline.run_start.seq}}} :
       \E r \in {IF new_ids = {}
                 THEN [store |-> flags, raised |-> storeFails, returned |-> Some(0)]
                 ELSE DetectRun(flags, new_ids, storeFails)} :
        /\ flags' = r.store
        /\ runs' = IF new_ids = {} THEN runs ELSE runs + 1
        /\ ingest_runs' = IF new_ids = {} THEN ingest_runs
                          ELSE [ingest_runs EXCEPT ![pipeline.run_id].batch =
                                                       Some(new_ids)]
        /\ pipeline' = [pipeline EXCEPT !.pc = AfterStage("flags", r.raised),
                                        !.errors = IF r.raised THEN Append(@, "flags") ELSE @,
                                        !.trace = Append(@, [stage |-> "flags",
                                                             raised |-> r.raised]),
                                        !.flags_count = IF r.raised THEN 0
                                                        ELSE Val(r.returned)]
        /\ lastOp' = [kind |-> "flags", raised |-> r.raised, batch |-> new_ids]
    /\ UNCHANGED <<filings, prices, analytics, clock>>

\* refresh_all_analytics, as stage 5 of run_pipeline and as the last step
\* of run_backfill, where it is not guarded and ends the script either way.
stage_analytics(failTicker, failAt) ==
    /\ pipeline.pc \in {"analytics", "backfill_analytics"}
    /\ failTicker = 0 => failAt = 0
    /\ failTicker # 0 => /\ failAt >= 1
                          /\ failAt <= NumInsiders(COMPANIES[failTicker]) + 1
    /\ \E r \in {RefreshAllFrom(1, analytics, 0, {}, failTicker, failAt)} :
        /\ analytics' = r.store
        /\ pipeline' =
             IF pipeline.pc = "backfill_analytics" THEN [pc |-> "idle", utc |-> pipeline.utc]
             ELSE [pipeline EXCEPT !.pc = AfterStage("analytics", r.raised),
                                   !.errors = IF r.raised THEN Append(@, "analytics") ELSE @,
                                   !.trace = Append(@, [stage |-> "analytics",
                                                        raised |-> r.raised]),
                                   !.analytics_count =
                                       IF r.raised THEN 0 ELSE Val(r.returned)]
        /\ lastOp' = [kind |-> pipeline.pc, raised |-> r.raised]
    /\ UNCHANGED <<filings, prices, flags, clock, runs, ingest_runs>>

\* The run log is finalised in a session of its own. logFails: the store
\* raises, the update is rolled back and the record stays as it was.
finalise_run_log(logFails) ==
    /\ pipeline.pc = "finalise"
    /\ ingest_runs' =
         IF logFails THEN SessionRollback(ingest_runs, ingest_runs)
         ELSE [ingest_runs EXCEPT ![pipeline.run_id] =
                  [@ EXCEPT !.new_section16_rows = pipeline.new_s16,
                            !.analytics_refreshed = pipeline.analytics_count,
                            !.flags_raised = pipeline.flags_count,
                            !.status = IF pipeline.errors # <<>> THEN "partial"
                                      ELSE "success",
                            !.errors = IF pipeline.errors # <<>>
                                       THEN Some(pipeline.errors) ELSE None]]
    /\ pipeline' = [pc |-> "idle", utc |-> pipeline.utc]
    /\ lastOp' = [kind |-> "finalise", raised |-> logFails, trace |-> pipeline.trace]
    /\ UNCHANGED <<filings, prices, flags, analytics, clock, runs>>

\* run_backfill up to its analytics step (which is stage_analytics):
\* prices, then upsert_section16 over the whole history, an exception of
\* which is printed and dropped. The backfill creates no run record and
\* never calls the detectors.
run_backfill(failAt, failLine) ==
    /\ pipeline.pc = "idle"
    /\ failAt = 0 => failLine = 0
    /\ failAt <= Len(WorklistFrom(1, 0, Today))
    /\ \E now \in {UtcNow} :
       \E r \in {upsert_section16(filings, 0, Today, now, 0, failAt, failLine)} :
        /\ prices' = sync_prices(prices)
        /\ filings' = r.store
        /\ pipeline' = [pc |-> "backfill_analytics", utc |-> now.seq]
        /\ lastOp' = [kind |-> "backfill", raised |-> r.raised]
    /\ UNCHANGED <<flags, analytics, clock, runs, ingest_runs>>

\* Before the first run: empty tables.
InitPipeline ==
    /\ filings = <<>>
    /\ prices = {}
    /\ flags = <<>>
    /\ analytics = <<>>
    /\ clock = 0
    /\ runs = 0
    /\ ingest_runs = <<>>
    /\ pipeline = [pc |-> "idle", utc |-> 0]
    /\ lastOp = [kind |-> "init"]

\* Runs and backfills one after the other, the days passing between them.
\* The store may fail during the Section-16 upsert, during the detection
\* and when the run log is finalised.
NextIngest ==
    \/ pipeline.pc = "idle" /\ Tick
    \/ pipeline.utc < MaxReadings /\ run_pipeline(FALSE)
    \/ stage_prices(FALSE)
    \/ \E failAt \in 0..Len(EdgarFilings), failLine \in 0..2 :
           stage_section16(failAt, failLine)
    \/ stage_stakes(FALSE)
    \/ \E storeFails \in BOOLEAN : stage_flags(storeFails)
    \/ stage_analytics(0, 0)
    \/ \E logFails \in BOOLEAN : finalise_run_log(logFails)
    \/ \E failAt \in 0..Len(EdgarFilings), failLine \in 0..2 :
           pipeline.utc < MaxReadings /\ run_backfill(failAt, failLine)

SpecIngest == InitPipeline /\ [][NextIngest]_vars

\* A few runs in which any stage may raise.
NextStages ==
    \/ Tick
    \/ \E seedFails \in BOOLEAN :
           Len(ingest_runs) < MaxStageRuns /\ run_pipeline(seedFails)
    \/ \E fails \in BOOLEAN : stage_prices(fails)
    \/ \E failAt \in 0..Len(EdgarFilings), failLine \in 0..2 :
           stage_section16(failAt, failLine)
    \/ \E fails \in BOOLEAN : stage_stakes(fails)
    \/ \E storeFails \in BOOLEAN : stage_flags(storeFails)
    \/ \E failTicker \in 0..1, failAt \in 0..1 : stage_analytics(failTicker, failAt)
    \/ \E logFails \in BOOLEAN : finalise_run_log(logFails)

SpecStages == InitPipeline /\ [][NextStages]_vars

\* Runs one after the other, each of which may end "success", end "partial"
\* (the Section-16 stage raised) or stay "running" (the seeding raised, or
\* the update of the run log failed).
NextIngestWindow ==
    \/ pipeline.pc = "idle" /\ Tick
    \/ \E seedFails \in BOOLEAN :
           Len(ingest_runs) < MaxWindowRuns /\ run_pipeline(seedFails)
    \/ stage_prices(FALSE)
    \/ \E failAt \in 0..1 : stage_section16(failAt, 0)
    \/ stage_stakes(FALSE)
    \/ stage_flags(FALSE)
    \/ stage_analytics(0, 0)
    \/ \E logFails \in BOOLEAN : finalise_run_log(logFails)

SpecIngestWindow == InitPipeline /\ [][NextIngestWindow]_vars

----------------------------------------------------------------------------
(* Which rows reach the detectors *)

\* Claim C27: the rows handed to the detectors by a pipeline run are the
\* rows that this run inserted, all of them and no others. A row is
\* therefore in the batch of its own run only: rows of an earlier run
\* (also of one whose flag stage raised) and rows of the backfill are in
\* the batch of no later run.
C27_BatchIsOwnRows ==
    [][pipeline.pc = "flags" /\ pipeline'.pc # "flags"
       => lastOp'.batch = {i \in DOMAIN filings : filings[i].by = pipeline.run_id}]_vars

\* A run whose flag stage raised left the two purchases of the CEO without
\* a flag, the backfill added a row, and a later run that ended "success"
\* was handed none of them.
C27_Witness ==
    /\ pipeline.pc = "idle"
    /\ \E r1, r2 \in DOMAIN ingest_runs :
        /\ r1 < r2
        /\ ingest_runs[r1].errors = Some(<<"flags">>)
        /\ ingest_runs[r1].batch # None
        /\ ingest_runs[r2].status = "success"
        /\ ingest_runs[r2].batch = None
        /\ \E i, j \in DOMAIN filings :
            /\ filings[i].by = r1
            /\ filings[i].officer_title = "CEO"
            /\ filings[j].by = 0
    /\ flags = <<>>

----------------------------------------------------------------------------
(* Stage order and the run record *)

\* The stages of run_pipeline in the order of the source text.
FiveStages == <<"prices", "section16", "stakes", "flags", "analytics">>

\* The stages of a trace that raised, in order.
RaisedIn(trace) ==
    LET failed == SelectSeq(trace, LAMBDA t : t.raised)
    IN  [k \in DOMAIN failed |-> failed[k].stage]

\* A call of run_pipeline begins: a run record is added.
RunBegins == Len(ingest_runs') = Len(ingest_runs) + 1

\* A call of run_pipeline ends: after the run log step, or in the seeding.
RunEnds ==
    /\ pipeline'.pc = "idle"
    /\ pipeline.pc = "finalise" \/ RunBegins

\* Claim C28 as stated: whenever a call of run_pipeline ends, the five
\* stages have run in their order, and the run record is "success" if no
\* stage raised and "partial" otherwise, with one error entry per stage
\* that raised.
C28_AsStated ==
    [][RunEnds =>
         LET trace == IF RunBegins THEN <<>> ELSE pipeline.trace
             rec   == ingest_runs'[Len(ingest_runs')]
         IN  /\ [k \in DOMAIN trace |-> trace[k].stage] = FiveStages
             /\ rec.status = IF RaisedIn(trace) = <<>> THEN "success" ELSE "partial"
             /\ rec.errors = IF RaisedIn(trace) = <<>> THEN None
                             ELSE Some(RaisedIn(trace))]_vars

\* Claim C28, amended: the run record is added as "running"; if the seeding
\* raises, the call ends there and no stage runs; otherwise the five stages
\* run in their order, each one whether or not the one before it raised,
\* and each stage that raises adds one error entry; the run log step, when
\* it succeeds, sets the record to "success" if no stage raised and to
\* "partial" otherwise, with the error entries of the stages that raised
\* in stage order, and when it fails leaves the record "running".
C28_StagesAndStatus ==
    [][/\ RunBegins =>
            /\ ingest_runs'[Len(ingest_runs')].status = "running"
            /\ pipeline'.pc = IF lastOp'.raised THEN "idle" ELSE FiveStages[1]
       /\ \A k \in DOMAIN FiveStages :
            pipeline.pc = FiveStages[k] /\ pipeline' # pipeline =>
                /\ pipeline'.pc = IF k < Len(FiveStages) THEN FiveStages[k + 1]
                                  ELSE "finalise"
                /\ [j \in DOMAIN pipeline.trace |-> pipeline.trace[j].stage]
                       = SubSeq(FiveStages, 1, k - 1)
                /\ pipeline'.errors = IF lastOp'.raised
                                      THEN Append(pipeline.errors, FiveStages[k])
                                      ELSE pipeline.errors
                /\ ingest_runs'[pipeline.run_id].status = "running"
       /\ pipeline.pc = "finalise" /\ pipeline'.pc = "idle" =>
            LET rec == ingest_runs'[pipeline.run_id]
            IN  /\ [j \in DOMAIN pipeline.trace |-> pipeline.trace[j].stage] = FiveStages
                /\ pipeline.errors = RaisedIn(pipeline.trace)
                /\ IF lastOp'.raised
                   THEN rec = ingest_runs[pipeline.run_id] /\ rec.status = "running"
                   ELSE /\ rec.status = IF RaisedIn(pipeline.trace) = <<>>
                                        THEN "success" ELSE "partial"
                        /\ rec.errors = IF RaisedIn(pipeline.trace) = <<>> THEN None
                                        ELSE Some(RaisedIn(pipeline.trace))]_vars

\* The Section-16 stage raised after a commit; the flag stage and the
\* analytics stage ran all the same and wrote a flag and analytics records,
\* and the run ended "partial" with the one error entry.
C28_Witness ==
    /\ pipeline.pc = "idle"
    /\ lastOp.kind = "finalise"
    /\ ingest_runs[1].status = "partial"
    /\ ingest_runs[1].errors = Some(<<"section16">>)
    /\ flags # <<>>
    /\ analytics # <<>>
----------------------------------------------------------------------------
(* The ingest window from run to run *)

\* The runs of the log that ended "success".
SuccessfulRuns == {i \in DOMAIN ingest_runs : ingest_runs[i].status = "success"}

\* Claim C29: when a run without an explicit start date begins, its ingest
\* window starts 2 days before the run time of the latest run logged as
\* "success", or 30 days before today when there is none; runs that ended
\* "partial" or stayed "running" count for nothing, so the window starts
\* before the day of the last successful run whatever runs came after it;
\* and the Section-16 stage of the run stores filings of that window only.
C29_WindowStart ==
    [][/\ RunBegins /\ pipeline'.pc # "idle" =>
            /\ pipeline'.end_date = Today
            /\ IF SuccessfulRuns = {}
               THEN pipeline'.start_date = Today - 30
               ELSE LET last == CHOOSE i \in SuccessfulRuns : \A j \in SuccessfulRuns : j <= i
                    IN  /\ pipeline'.start_date = ingest_runs[last].run_at.date - 2
                        /\ pipeline'.start_date < ingest_runs[last].run_at.date
                        /\ \A i \in DOMAIN ingest_runs :
                               ingest_runs[i].status # "success" /\ i > last =>
                                   pipeline'.start_date <= ingest_runs[i].run_at.date - 2
       /\ pipeline.pc = "section16" =>
            \A i \in DOMAIN filings' \ DOMAIN filings :
                /\ pipeline.start_date <= Val(filings'[i].filing_date)
                /\ Val(filings'[i].filing_date) <= pipeline.end_date]_vars

\* A run ended "success"; on a later day a run ended "partial"; a third run
\* is in progress, past the prices stage, and has the
\* window that starts 2 days before the successful run.
C29_Witness ==
    /\ pipeline.pc = "section16"
    /\ \E r1, r2 \in DOMAIN ingest_runs :
          /\ r1 < r2 /\ r2 < pipeline.run_id
          /\ ingest_runs[r1].status = "success"
          /\ ingest_runs[r2].status = "partial"
          /\ ingest_runs[r1].run_at.date < ingest_runs[r2].run_at.date
          /\ pipeline.start_date = ingest_runs[r1].run_at.date - 2
----------------------------------------------------------------------------
(* Section-16 ingestion: each filing once, whole or not at all *)

\* The stored rows of one accession number, in the order of their ids.
RowsOfAccession(session, accession_no) ==
    SelectSeq(session, LAMBDA r : r.accession_no = accession_no)

\* The rows are the transaction lines of the filing, each once, in order.
StoredWhole(rows, filing) ==
    /\ Len(rows) = Len(filing.lines)
    /\ \A j \in DOMAIN rows :
          /\ rows[j].ticker = filing.ticker
          /\ rows[j].filing_date = Some(filing.filing_date)
          /\ rows[j].insider_name = filing.lines[j].name
          /\ rows[j].transaction_date = filing.lines[j].shape.tdate
          /\ rows[j].transaction_code = filing.lines[j].shape.code
          /\ rows[j].shares = filing.lines[j].shape.sh

\* Claim C30: whatever runs and backfills are made one after the other,
\* over overlapping windows and with upserts that raise midway, every step
\* leaves the stored rows as they are, adds no row of an accession number
\* that is already stored, and leaves every filing either without a row or
\* with its transaction lines stored once each.
C30_WholeFilingsOnce ==
    [][/\ Len(filings) <= Len(filings')
       /\ SubSeq(filings', 1, Len(filings)) = filings
       /\ \A i \in DOMAIN filings' \ DOMAIN filings :
              \A j \in DOMAIN filings :
                  filings[j].accession_no # filings'[i].accession_no
       /\ \A e \in DOMAIN EdgarFilings :
              LET rows == RowsOfAccession(filings', EdgarFilings[e].accession_no)
              IN  rows = <<>> \/ StoredWhole(rows, EdgarFilings[e])]_vars

\* The Section-16 stage of the first run raised on its second filing after
\* the first had been committed, and the run ended "partial"; a later run
\* or backfill over the same days skipped the first filing and stored the
\* second: both are stored whole, each by the call that committed it.
C30_Witness ==
    /\ pipeline.pc = "idle"
    /\ ingest_runs # <<>>
    /\ ingest_runs[1].status = "partial"
    /\ ingest_runs[1].errors = Some(<<"section16">>)
    /\ \A e \in 1..2 :
          StoredWhole(RowsOfAccession(filings, EdgarFilings[e].accession_no),
                      EdgarFilings[e])
    /\ \A r \in Range(filings) :
          /\ r.accession_no = EdgarFilings[1].accession_no => r.by = 1
          /\ r.accession_no = EdgarFilings[2].accession_no => r.by # 1

====
